---- MODULE Spec2Model ----
(***************************************************************************)
(* Simulation and risk-enforcement engine of the trading bot: Portfolio    *)
(* (position ledger), RiskManager (risk policy), Backtester (simulation    *)
(* loop) and the periodic TradingEngine.                                   *)
(*                                                                         *)
(* Arithmetic.  The program computes in IEEE doubles; the model computes   *)
(* in fixed point.  Prices and money are integers in ticks of 1/PriceScale *)
(* of a currency unit, quantities are whole units.  Percentages of the     *)
(* configuration are kept in tenths of a percent (PctScale), so that 2.5 % *)
(* is 25.  A multiplication by a fraction is MulDiv, the exact floor of    *)
(* a*b/c; on the price grid used by the loops every stored price is exact. *)
(*                                                                         *)
(* Identity.  A position carries the string id the program gives it (time  *)
(* stamp plus four random characters, so two positions can receive the     *)
(* same id) and `obj`, the identity of the JavaScript object.              *)
(***************************************************************************)
EXTENDS Integers, Sequences, FiniteSets, TLC

VARIABLES
    config,       \* the configuration object handed to the constructors (never assigned)
    mode,         \* which driver owns the objects: "ledger", "risk", "backtest", "periodic",
                  \* "live", "calc", "exchange"
    portfolio,    \* Portfolio: [balance, positions, tradeHistory]
    riskManager,  \* RiskManager: [dailyPnL, dailyResetDate, peakBalance, halted, haltReason]
    today,        \* the wall-clock date last returned by _today()
    i,            \* Backtester.run: bar index past the warm-up; TradingEngine: tickCount
    pc,           \* position of the driver: "start", "bar", "exits", "closing", "done",
                  \* "threw" (run ended by an exception), "api"; of a tick of the
                  \* live engine: "idle", "fetch", "exits", "closeOrder", "openOrder"
    currentPrice, \* close of the bar being processed
    snapshot,     \* the copy [...portfolio.positions] the exit loop iterates over
    k,            \* index of the next element of snapshot to process
    nextObj,      \* allocation counter of position objects
    calls,        \* number of API calls made (ledger and risk drivers)
    last,         \* the last call: its name, arguments and return value (observation)
    hist,         \* history: ddHaltSet, recordPnL has set a max_drawdown halt;
                  \* openQty[obj], the quantity the position obj was opened with
    engine,       \* LiveTradingEngine: running; loop, the position of the while loop of
                  \* start(); inFlight, the calls of tick() that have not returned;
                  \* pending, the market order whose response is awaited
    process,      \* the node process: signals received, exit timers set, exited
    exchange      \* the exchange account: position, the net quantity of the executed
                  \* market orders; orders, their number

vars == <<config, mode, portfolio, riskManager, today, i, pc, currentPrice, snapshot, k,
          nextObj, calls, last, hist, engine, process, exchange>>

-----------------------------------------------------------------------------
(* Units and bounds *)

PriceScale == 100 * 100            \* ticks per currency unit
PctScale == 10 * 100               \* a percentage p is stored as 10*p; p % = stored / PctScale
BpsScale == 100 * 100              \* basis points per unit

MaxBars == 3      \* bars after the warm-up offset (ticks of the periodic engine)
MaxDays == 1      \* midnights the wall clock may pass during a run
MaxCalls == 3     \* API calls in the ledger and risk drivers
NumIds == 2       \* distinct id strings the generator can return

Ids == 1..NumIds
NoBar == 0 - 1                     \* pos._entryBar === undefined
NoArg == 0 - 1                     \* an argument that was not passed (undefined)

(* Close prices of the bars, in currency units: flat, +-3.5 %, +-6 %. *)
BarCloses == {188, 193, 200, 207, 212}
Prices == {c * PriceScale : c \in BarCloses}

(***************************************************************************)
(* Configurations.  ShippedConfig is the configuration file of the         *)
(* repository (risk and tradingCosts sections, initialBalance).  A run of  *)
(* MaxBars bars cannot reach its limits, so the drivers are given          *)
(* RunConfig: the same percentages and costs with the four limits lowered. *)
(***************************************************************************)
ShippedConfig ==
    [ initialBalance     |-> 10000 * PriceScale,
      maxPositionSizePct |-> 20,     \* 2 %
      stopLossPct        |-> 30,     \* 3 %
      takeProfitPct      |-> 60,     \* 6 %
      trailingStopPct    |-> 25,     \* 2.5 %
      maxOpenPositions   |-> 3,
      maxDailyLossPct    |-> 50,     \* 5 %
      maxDrawdownPct     |-> 150,    \* 15 %
      riskRewardRatio    |-> 15,     \* 1.5, in tenths
      minConfidence      |-> 15,
      maxBarsInTrade     |-> 100,
      slippageBps        |-> 3,
      spreadBps          |-> 2,
      commissionBps      |-> 10,
      stopSlippageBps    |-> 8 ]

RunConfig(maxBars) ==
    [ ShippedConfig EXCEPT
        !.maxOpenPositions = 2,
        !.maxDailyLossPct = 10,      \* 1 %
        !.maxDrawdownPct = 20,       \* 2 %
        !.maxBarsInTrade = maxBars ]

\* a holding limit the run reaches, and the shipped one, which it does not
Configs == {RunConfig(2), RunConfig(100)}

-----------------------------------------------------------------------------
(* Numeric helpers *)

Max(a, b) == IF a >= b THEN a ELSE b
Min(a, b) == IF a <= b THEN a ELSE b
Abs(a) == IF a >= 0 THEN a ELSE 0 - a

\* floor(a * b / c) for c > 0, b >= 0, without forming a * b
MulDiv(a, b, c) == (a \div c) * b + ((a % c) * b) \div c

\* ceiling(a * b / c) for c > 0, b >= 0
MulDivCeil(a, b, c) == (a \div c) * b + ((a % c) * b + (c - 1)) \div c

-----------------------------------------------------------------------------
(* Portfolio *)

NewPortfolio(initialBalance) ==
    [ balance |-> initialBalance, positions |-> <<>>, tradeHistory |-> <<>> ]

\* mutant: the index -1 is used unchecked, and splice(-1, 1) takes the last element
findIndexUnchecked(positions, positionId) ==
    IF \E n \in 1..Len(positions) : positions[n].id = positionId
    THEN CHOOSE n \in 1..Len(positions) :
             /\ positions[n].id = positionId
             /\ \A m \in 1..(n - 1) : positions[m].id # positionId
    ELSE Len(positions)

\* Array.prototype.findIndex: the first index whose id matches, 0 for -1
findIndex(positions, positionId) ==
    IF \E n \in 1..Len(positions) : positions[n].id = positionId
    THEN CHOOSE n \in 1..Len(positions) :
             /\ positions[n].id = positionId
             /\ \A m \in 1..(n - 1) : positions[m].id # positionId
    ELSE 0

\* mutant: nothing is removed
spliceNothing(s, idx) == s

\* Array.prototype.splice(idx, 1)
splice(s, idx) == [n \in 1..(Len(s) - 1) |-> IF n < idx THEN s[n] ELSE s[n + 1]]

\* mutant: the balance check is missing
openPositionNoBalanceCheck(pf, o, id, obj) ==
    [ portfolio |->
        [ pf EXCEPT
            !.balance = @ - o.price * o.quantity,
            !.positions = Append(@,
                [ id |-> id, obj |-> obj, side |-> o.side, entryPrice |-> o.price,
                  quantity |-> o.quantity, value |-> o.price * o.quantity,
                  stopLoss |-> o.stopLoss, takeProfit |-> o.takeProfit,
                  trailingStop |-> o.stopLoss, entryBar |-> NoBar,
                  partialTaken |-> FALSE ]) ],
      opened |-> TRUE ]

(***************************************************************************)
(* openPosition({side, price, quantity, stopLoss, takeProfit}).  id is the *)
(* string the id generator returns, obj the new object.  Result: the new   *)
(* portfolio and whether a position was returned (FALSE for null).         *)
(***************************************************************************)
openPosition(pf, o, id, obj) ==
    LET cost == o.price * o.quantity IN
    IF cost > pf.balance
    THEN [ portfolio |-> pf, opened |-> FALSE ]
    ELSE [ portfolio |->
             [ pf EXCEPT
                 !.balance = @ - cost,
                 !.positions = Append(@,
                     [ id |-> id, obj |-> obj, side |-> o.side, entryPrice |-> o.price,
                       quantity |-> o.quantity, value |-> cost,
                       stopLoss |-> o.stopLoss, takeProfit |-> o.takeProfit,
                       trailingStop |-> o.stopLoss, entryBar |-> NoBar,
                       partialTaken |-> FALSE ]) ],
           opened |-> TRUE ]

\* mutant: the SELL branch is missing
positionPnlLongOnly(position, price) ==
    (price - position.entryPrice) * position.quantity

positionPnl(position, price) ==
    IF position.side = "BUY"
    THEN (price - position.entryPrice) * position.quantity
    ELSE (position.entryPrice - price) * position.quantity

MakeTrade(position, exitPrice, pnl, reason, time) ==
    [ id |-> position.id, obj |-> position.obj, side |-> position.side,
      entryPrice |-> position.entryPrice, quantity |-> position.quantity,
      value |-> position.value, stopLoss |-> position.stopLoss,
      takeProfit |-> position.takeProfit, trailingStop |-> position.trailingStop,
      entryBar |-> position.entryBar, partialTaken |-> position.partialTaken,
      exitPrice |-> exitPrice, exitTime |-> time, pnl |-> pnl, exitReason |-> reason ]

\* mutant: the entry cost is not returned to the balance
closePositionKeepsCost(pf, positionId, price, reason, time) ==
    LET idx == findIndex(pf.positions, positionId) IN
    IF idx = 0
    THEN [ portfolio |-> pf, found |-> FALSE, pnl |-> 0 ]
    ELSE LET position == pf.positions[idx]
             pnl == positionPnl(position, price)
         IN  [ portfolio |->
                 [ balance |-> pf.balance + pnl,
                   positions |-> splice(pf.positions, idx),
                   tradeHistory |->
                       Append(pf.tradeHistory,
                              MakeTrade(position, price, pnl, reason, time)) ],
               found |-> TRUE, pnl |-> pnl ]

(***************************************************************************)
(* closePosition(positionId, currentPrice, reason, time).  Result: the new *)
(* portfolio, whether a position was found (FALSE for null), and the pnl.  *)
(***************************************************************************)
closePosition(pf, positionId, price, reason, time) ==
    LET idx == findIndex(pf.positions, positionId) IN
    IF idx = 0
    THEN [ portfolio |-> pf, found |-> FALSE, pnl |-> 0 ]
    ELSE LET position == pf.positions[idx]
             pnl == positionPnl(position, price)
         IN  [ portfolio |->
                 [ balance |-> pf.balance + position.value + pnl,
                   positions |-> splice(pf.positions, idx),
                   tradeHistory |->
                       Append(pf.tradeHistory,
                              MakeTrade(position, price, pnl, reason, time)) ],
               found |-> TRUE, pnl |-> pnl ]

RECURSIVE SumOpen(_, _)
\* the reduce of getTotalValue: sum of p.value + unrealized pnl
SumOpen(positions, price) ==
    IF positions = <<>> THEN 0
    ELSE Head(positions).value + positionPnl(Head(positions), price)
         + SumOpen(Tail(positions), price)

getTotalValue(pf, price) == pf.balance + SumOpen(pf.positions, price)

(***************************************************************************)
(* Number formatting of getSummary.  Fixed(a, c, d) is (a / c).toFixed(d)  *)
(* as an integer count of 10^-d steps: the quotient rounded to the nearest *)
(* step, halves away from zero.  The digits are produced by long division  *)
(* with additions only, so that no intermediate value leaves 32 bits.      *)
(***************************************************************************)
RECURSIVE DigitStep(_, _, _, _, _)
DigitStep(r, c, n, q, acc) ==
    IF n = 0 THEN [q |-> q, r |-> acc]
    ELSE IF acc + r >= c THEN DigitStep(r, c, n - 1, q + 1, acc + r - c)
         ELSE DigitStep(r, c, n - 1, q, acc + r)

RECURSIVE Expand(_, _, _, _)
Expand(q, r, c, d) ==
    IF d = 0 THEN q
    ELSE LET s == DigitStep(r, c, 10, 0, 0) IN Expand(q * 10 + s.q, s.r, c, d - 1)

Fixed(a, c, d) ==
    LET m == Abs(a)
        q == (Expand(m \div c, m % c, c, d + 1) + 5) \div 10
    IN  IF a < 0 THEN 0 - q ELSE q

RECURSIVE CountWins(_)
CountWins(trades) ==
    IF trades = <<>> THEN 0
    ELSE (IF Head(trades).pnl > 0 THEN 1 ELSE 0) + CountWins(Tail(trades))

\* wins.reduce((s, t) => s + t.pnl, 0)
RECURSIVE GrossWins(_)
GrossWins(trades) ==
    IF trades = <<>> THEN 0
    ELSE (IF Head(trades).pnl > 0 THEN Head(trades).pnl ELSE 0) + GrossWins(Tail(trades))

\* losses.reduce((s, t) => s + Math.abs(t.pnl), 0)
RECURSIVE GrossLosses(_)
GrossLosses(trades) ==
    IF trades = <<>> THEN 0
    ELSE (IF Head(trades).pnl <= 0 THEN Abs(Head(trades).pnl) ELSE 0)
         + GrossLosses(Tail(trades))

RECURSIVE TotalPnl(_)
TotalPnl(trades) ==
    IF trades = <<>> THEN 0 ELSE Head(trades).pnl + TotalPnl(Tail(trades))

\* the replay loop of getSummary; the drawdown in hundredths of a percent
RECURSIVE maxDrawdown(_, _, _, _)
maxDrawdown(trades, runningBalance, peak, maxDD) ==
    IF trades = <<>> THEN maxDD
    ELSE LET running == runningBalance + Head(trades).pnl
             peak1 == IF running > peak THEN running ELSE peak
             dd == Fixed(peak1 - running, peak1, 4)
         IN  maxDrawdown(Tail(trades), running, peak1, Max(maxDD, dd))

\* profitFactor with the test for a win left out of the fallback
profitFactorNoWinTest(trades) ==
    LET wins == CountWins(trades)
        grossLoss == GrossLosses(trades)
    IN  IF Len(trades) - wins > 0 /\ grossLoss > 0
        THEN [inf |-> FALSE, value |-> Fixed(GrossWins(trades), grossLoss, 2)]
        ELSE [inf |-> TRUE, value |-> 0]

\* profitFactor: 'Inf', or the quotient in hundredths
profitFactor(trades) ==
    LET wins == CountWins(trades)
        grossLoss == GrossLosses(trades)
    IN  IF Len(trades) - wins > 0 /\ grossLoss > 0
        THEN [inf |-> FALSE, value |-> Fixed(GrossWins(trades), grossLoss, 2)]
        ELSE IF wins > 0 THEN [inf |-> TRUE, value |-> 0]
             ELSE [inf |-> FALSE, value |-> 0]

(***************************************************************************)
(* getSummary(currentPrice).  Money in hundredths of a currency unit,      *)
(* percentages in the steps of their toFixed.  avgWin and avgLoss, the     *)
(* means of pnlPct, are left out: trades do not carry pnlPct here.         *)
(***************************************************************************)
getSummary(pf, price) ==
    LET trades == pf.tradeHistory
        totalValue == getTotalValue(pf, price)
        wins == CountWins(trades)
    IN  [ totalValue |-> Fixed(totalValue, PriceScale, 2),
          totalReturn |-> Fixed(totalValue - config.initialBalance,
                                config.initialBalance, 4),
          totalPnl |-> Fixed(TotalPnl(trades), PriceScale, 2),
          totalTrades |-> Len(trades),
          wins |-> wins,
          losses |-> Len(trades) - wins,
          winRate |-> IF Len(trades) > 0 THEN Fixed(wins, Len(trades), 3) ELSE 0,
          profitFactor |-> profitFactor(trades),
          maxDrawdown |-> maxDrawdown(trades, config.initialBalance,
                                      config.initialBalance, 0),
          openPositions |-> Len(pf.positions) ]

-----------------------------------------------------------------------------
(* RiskManager *)

NewRiskManager(date) ==
    [ dailyPnL |-> 0, dailyResetDate |-> date,
      peakBalance |-> config.initialBalance, halted |-> FALSE, haltReason |-> "" ]

\* mutant: the un-halt of a daily-loss halt is missing
checkDayRolloverKeepsHalt(rm, currentBalance, now) ==
    IF now # rm.dailyResetDate
    THEN [ rm EXCEPT
             !.dailyPnL = 0,
             !.dailyResetDate = now,
             !.peakBalance = IF currentBalance # NoArg /\ currentBalance > 0
                             THEN currentBalance ELSE @ ]
    ELSE rm

(***************************************************************************)
(* checkDayRollover(currentBalance); now is what _today() returns.         *)
(* currentBalance = NoArg when the caller passes no argument.              *)
(***************************************************************************)
checkDayRollover(rm, currentBalance, now) ==
    IF now # rm.dailyResetDate
    THEN LET lift == rm.haltReason = "daily_loss" IN
         [ dailyPnL |-> 0,
           dailyResetDate |-> now,
           peakBalance |-> IF currentBalance # NoArg /\ currentBalance > 0
                           THEN currentBalance ELSE rm.peakBalance,
           halted |-> IF lift THEN FALSE ELSE rm.halted,
           haltReason |-> IF lift THEN "" ELSE rm.haltReason ]
    ELSE rm

isHalted(rm) == rm.halted

dailyLossLimit == MulDiv(config.initialBalance, config.maxDailyLossPct, PctScale)

\* ((this.peakBalance - currentBalance) / this.peakBalance) * 100, in hundredths of a
\* percent
drawdownPct(peak, currentBalance) == Fixed(peak - currentBalance, peak, 4)

\* the drawdown test with > for >=
drawdownReachedStrict(peak, currentBalance) ==
    peak - currentBalance > MulDivCeil(peak, config.maxDrawdownPct, PctScale)

\* ((peak - current) / peak) * 100 >= maxDrawdownPct, for peak > 0
drawdownReached(peak, currentBalance) ==
    peak - currentBalance >= MulDivCeil(peak, config.maxDrawdownPct, PctScale)

\* mutant: the peak follows the balance given, downwards too
recordPnLPeakFollows(rm, pnl, currentBalance) ==
    LET daily == rm.dailyPnL + pnl
        peak == currentBalance
        lossHit == daily < 0 - dailyLossLimit
        ddHit == drawdownReached(peak, currentBalance)
    IN  [ dailyPnL |-> daily,
          dailyResetDate |-> rm.dailyResetDate,
          peakBalance |-> peak,
          halted |-> IF lossHit \/ ddHit THEN TRUE ELSE rm.halted,
          haltReason |-> IF ddHit THEN "max_drawdown"
                         ELSE IF lossHit THEN "daily_loss" ELSE rm.haltReason ]

\* mutant: only the losses are added to the daily P&L
recordPnLLossesOnly(rm, pnl, currentBalance) ==
    LET daily == rm.dailyPnL + (IF pnl < 0 THEN pnl ELSE 0)
        peak == IF currentBalance > rm.peakBalance THEN currentBalance ELSE rm.peakBalance
        lossHit == daily < 0 - dailyLossLimit
        ddHit == drawdownReached(peak, currentBalance)
    IN  [ dailyPnL |-> daily,
          dailyResetDate |-> rm.dailyResetDate,
          peakBalance |-> peak,
          halted |-> IF lossHit \/ ddHit THEN TRUE ELSE rm.halted,
          haltReason |-> IF ddHit THEN "max_drawdown"
                         ELSE IF lossHit THEN "daily_loss" ELSE rm.haltReason ]

recordPnL(rm, pnl, currentBalance) ==
    LET daily == rm.dailyPnL + pnl
        peak == IF currentBalance > rm.peakBalance THEN currentBalance ELSE rm.peakBalance
        lossHit == daily < 0 - dailyLossLimit
        ddHit == drawdownReached(peak, currentBalance)
    IN  [ dailyPnL |-> daily,
          dailyResetDate |-> rm.dailyResetDate,
          peakBalance |-> peak,
          halted |-> IF lossHit \/ ddHit THEN TRUE ELSE rm.halted,
          haltReason |-> IF ddHit THEN "max_drawdown"
                         ELSE IF lossHit THEN "daily_loss" ELSE rm.haltReason ]

\* mutant: > for >=
canOpenPositionOffByOne(rm, openPositionCount) ==
    IF rm.halted THEN FALSE
    ELSE IF openPositionCount > config.maxOpenPositions THEN FALSE
    ELSE TRUE

canOpenPosition(rm, openPositionCount) ==
    IF rm.halted THEN FALSE
    ELSE IF openPositionCount >= config.maxOpenPositions THEN FALSE
    ELSE TRUE

-----------------------------------------------------------------------------
(* Driver "ledger": any sequence of openPosition / closePosition calls *)

Sides == {"BUY", "SELL"}
LedgerCloses == {98, 100, 102}
LedgerPrices == {c * PriceScale : c \in LedgerCloses}
LedgerQuantities == {10, 60}

\* the order of the Portfolio test: stop 2 % beyond the price, target 4 %
LedgerOrder(side, price, quantity) ==
    [ side |-> side, price |-> price, quantity |-> quantity,
      stopLoss |-> IF side = "BUY" THEN price - MulDiv(price, 2, 100)
                   ELSE price + MulDiv(price, 2, 100),
      takeProfit |-> IF side = "BUY" THEN price + MulDiv(price, 4, 100)
                     ELSE price - MulDiv(price, 4, 100) ]

\* history of the quantities at opening
NoteOpen(opened, quantity) ==
    IF opened THEN [hist EXCEPT !.openQty = Append(@, quantity)] ELSE hist

\* history of max_drawdown halts
NoteHalt(rm) ==
    [hist EXCEPT !.ddHaltSet = @ \/ (rm.halted /\ rm.haltReason = "max_drawdown")]

NoOrder == [kind |-> "none"]

\* the engine as its constructor leaves it
NewEngine == [running |-> FALSE, loop |-> "new", inFlight |-> 0, pending |-> NoOrder]

InitCommon(configs) ==
    /\ config \in configs
    /\ today = 0
    /\ portfolio = NewPortfolio(config.initialBalance)
    /\ riskManager = NewRiskManager(0)
    /\ i = 0
    /\ currentPrice = 0
    /\ snapshot = <<>>
    /\ k = 1
    /\ nextObj = 1
    /\ calls = 0
    /\ last = [op |-> "new"]
    /\ hist = [ddHaltSet |-> FALSE, openQty |-> <<>>]
    /\ engine = NewEngine
    /\ process = [signals |-> 0, timers |-> 0, exited |-> FALSE]
    /\ exchange = [position |-> 0, orders |-> 0]

InitLedger == mode = "ledger" /\ pc = "api" /\ InitCommon({RunConfig(100)})

LedgerOpen ==
    /\ mode = "ledger" /\ calls < MaxCalls
    /\ \E side \in Sides, price \in LedgerPrices, quantity \in LedgerQuantities, id \in Ids :
         LET o == LedgerOrder(side, price, quantity)
             r == openPosition(portfolio, o, id, nextObj)
         IN  /\ portfolio' = r.portfolio
             /\ nextObj' = IF r.opened THEN nextObj + 1 ELSE nextObj
             /\ last' = [op |-> "openPosition", order |-> o, id |-> id,
                         obj |-> nextObj, returned |-> r.opened]
             /\ hist' = NoteOpen(r.opened, quantity)
    /\ calls' = calls + 1
    /\ UNCHANGED <<engine, process, exchange, config, mode, riskManager, today, i, pc, currentPrice, snapshot, k>>

LedgerClose ==
    /\ mode = "ledger" /\ calls < MaxCalls
    /\ \E id \in Ids, price \in LedgerPrices :
         LET r == closePosition(portfolio, id, price, "api", calls) IN
         /\ portfolio' = r.portfolio
         /\ last' = [op |-> "closePosition", id |-> id, price |-> price,
                     returned |-> r.found, pnl |-> r.pnl]
    /\ calls' = calls + 1
    /\ UNCHANGED <<engine, process, exchange, config, mode, riskManager, today, i, pc, currentPrice, snapshot, k, nextObj, hist>>

NextLedger == LedgerOpen \/ LedgerClose

SpecLedger == InitLedger /\ [][NextLedger]_vars

-----------------------------------------------------------------------------
(* Driver "risk": any sequence of recordPnL / checkDayRollover calls *)

RiskPnls == {(0 - 150) * PriceScale, (0 - 50) * PriceScale, 0, 100 * PriceScale}
RiskBalances == {c * PriceScale : c \in {9700, 9800, 9900, 10000, 10100}}

\* _today(): the clock shows the date last seen or, MaxDays times in all, the next one
Clock == {d \in {today, today + 1} : d <= MaxDays}

InitRisk == mode = "risk" /\ pc = "api" /\ InitCommon({RunConfig(100)})

RiskRecordPnL ==
    /\ mode = "risk" /\ calls < MaxCalls
    /\ \E pnl \in RiskPnls, currentBalance \in RiskBalances :
         /\ riskManager' = recordPnL(riskManager, pnl, currentBalance)
         /\ last' = [op |-> "recordPnL", pnl |-> pnl, currentBalance |-> currentBalance]
    /\ hist' = NoteHalt(riskManager')
    /\ calls' = calls + 1
    /\ UNCHANGED <<engine, process, exchange, config, mode, portfolio, today, i, pc, currentPrice, snapshot, k, nextObj>>

RiskCheckDayRollover ==
    /\ mode = "risk" /\ calls < MaxCalls
    /\ \E currentBalance \in RiskBalances \cup {NoArg}, now \in Clock :
         /\ riskManager' = checkDayRollover(riskManager, currentBalance, now)
         /\ today' = now
         /\ last' = [op |-> "checkDayRollover", currentBalance |-> currentBalance]
    /\ calls' = calls + 1
    /\ UNCHANGED <<engine, process, exchange, config, mode, portfolio, i, pc, currentPrice, snapshot, k, nextObj, hist>>

\* open-position counts asked about: none, below, at and above the limit
OpenCounts == 0..(config.maxOpenPositions + 1)

\* a query: canOpenPosition(openPositionCount)
RiskCanOpenPosition ==
    /\ mode = "risk"
    /\ \E openPositionCount \in OpenCounts :
         last' = [op |-> "canOpenPosition", openPositionCount |-> openPositionCount,
                  returned |-> canOpenPosition(riskManager, openPositionCount)]
    /\ UNCHANGED <<engine, process, exchange, config, mode, portfolio, riskManager, today, i, pc, currentPrice, snapshot,
                   k, nextObj, calls, hist>>

NextRisk == RiskRecordPnL \/ RiskCheckDayRollover \/ RiskCanOpenPosition

SpecRisk == InitRisk /\ [][NextRisk]_vars

-----------------------------------------------------------------------------
(* RiskManager: sizing, protective levels, exit conditions *)

\* Math.max(0.5, Math.min(1.5, 1 / volRatio)) in thousandths, for atr > 0:
\* 1 / volRatio = 0.015 * currentPrice / atr
volScalar(price, atr) == Max(500, Min(1500, MulDiv(price, 15, atr)))

\* calculatePositionSize without the cap at a quarter of the balance
calculatePositionSizeUncapped(balance, price, atr) ==
    LET base == MulDiv(balance, config.maxPositionSizePct, PctScale)
        riskAmount == IF atr # NoArg /\ atr > 0
                      THEN MulDiv(base, volScalar(price, atr), 1000)
                      ELSE base
        positionValue == MulDiv(riskAmount, PctScale, config.stopLossPct)
    IN  [ quantity |-> 2 * (positionValue \div (2 * price)), value |-> positionValue ]

(***************************************************************************)
(* calculatePositionSize(balance, currentPrice, candles).  atr is what     *)
(* _calculateATR returns for the candles, NoArg when no candles are passed *)
(* (or fewer than 20).  The quantity is rounded down to an even number of  *)
(* units, so that half of it is a quantity too.                            *)
(***************************************************************************)
calculatePositionSize(balance, price, atr) ==
    LET base == MulDiv(balance, config.maxPositionSizePct, PctScale)
        riskAmount == IF atr # NoArg /\ atr > 0
                      THEN MulDiv(base, volScalar(price, atr), 1000)
                      ELSE base
        positionValue == MulDiv(riskAmount, PctScale, config.stopLossPct)
        maxPositionValue == balance \div 4
        finalValue == Min(positionValue, maxPositionValue)
    IN  [ quantity |-> 2 * (finalValue \div (2 * price)), value |-> finalValue ]

getStopLoss(entryPrice, side) ==
    IF side = "BUY"
    THEN MulDiv(entryPrice, PctScale - config.stopLossPct, PctScale)
    ELSE MulDiv(entryPrice, PctScale + config.stopLossPct, PctScale)

getTakeProfit(entryPrice, side) ==
    IF side = "BUY"
    THEN MulDiv(entryPrice, PctScale + config.takeProfitPct, PctScale)
    ELSE MulDiv(entryPrice, PctScale - config.takeProfitPct, PctScale)

\* mutant: the stop follows the price both ways
updateTrailingStopNoRatchet(price, currentStop, side) ==
    IF side = "BUY"
    THEN MulDiv(price, PctScale - config.trailingStopPct, PctScale)
    ELSE MulDiv(price, PctScale + config.trailingStopPct, PctScale)

updateTrailingStop(price, currentStop, side) ==
    IF side = "BUY"
    THEN Max(currentStop, MulDiv(price, PctScale - config.trailingStopPct, PctScale))
    ELSE Min(currentStop, MulDiv(price, PctScale + config.trailingStopPct, PctScale))

\* checkExitConditions(position, currentPrice): the reason, "" for shouldClose false
checkExitConditions(position, price) ==
    IF position.side = "BUY"
    THEN IF price <= position.stopLoss THEN "Stop-loss hit"
         ELSE IF price >= position.takeProfit THEN "Take-profit hit" ELSE ""
    ELSE IF price >= position.stopLoss THEN "Stop-loss hit"
         ELSE IF price <= position.takeProfit THEN "Take-profit hit" ELSE ""

\* meetsRiskReward without the early return for a risk distance of 0
meetsRiskRewardZeroRisk(entryPrice, stopLoss, takeProfit) ==
    Abs(takeProfit - entryPrice) * 10 >= config.riskRewardRatio * Abs(entryPrice - stopLoss)

\* reward / risk >= riskRewardRatio (kept in tenths)
meetsRiskReward(entryPrice, stopLoss, takeProfit) ==
    LET risk == Abs(entryPrice - stopLoss)
        reward == Abs(takeProfit - entryPrice)
    IN  IF risk = 0 THEN FALSE ELSE reward * 10 >= config.riskRewardRatio * risk

-----------------------------------------------------------------------------
(* Backtester: cost model *)

\* costs.x || default: a configured 0 falls back to the default as well
slippageBps == IF config.slippageBps = 0 THEN 3 ELSE config.slippageBps
spreadBps == IF config.spreadBps = 0 THEN 2 ELSE config.spreadBps
commissionBps == IF config.commissionBps = 0 THEN 10 ELSE config.commissionBps
stopSlippageBps == IF config.stopSlippageBps = 0 THEN 8 ELSE config.stopSlippageBps

entryBps == slippageBps + spreadBps + commissionBps

_applyEntryCost(price, side) ==
    IF side = "BUY"
    THEN MulDiv(price, BpsScale + entryBps, BpsScale)
    ELSE MulDiv(price, BpsScale - entryBps, BpsScale)

_applyExitCost(price, side, isStopLoss) ==
    LET totalBps == entryBps + (IF isStopLoss THEN stopSlippageBps ELSE 0) IN
    IF side = "BUY"
    THEN MulDiv(price, BpsScale - totalBps, BpsScale)
    ELSE MulDiv(price, BpsScale + totalBps, BpsScale)

-----------------------------------------------------------------------------
(* Backtester.run: the per-position exit checks of one bar *)

maxBarsInTrade == IF config.maxBarsInTrade = 0 THEN 100 ELSE config.maxBarsInTrade

\* the position object obj in the open list
posIndex(positions, obj) == CHOOSE n \in 1..Len(positions) : positions[n].obj = obj

isOpen(positions, obj) == \E n \in 1..Len(positions) : positions[n].obj = obj

\* currentPrice has moved half of the take-profit distance from the entry price
partialReached(pos, price) ==
    IF pos.side = "BUY"
    THEN price - pos.entryPrice >= MulDivCeil(pos.entryPrice, config.takeProfitPct, 2 * PctScale)
    ELSE pos.entryPrice - price >= MulDivCeil(pos.entryPrice, config.takeProfitPct, 2 * PctScale)

\* mutant: the stop is not moved to the entry price
partialTakeKeepsStop(pos, price) ==
    LET halfQty == pos.quantity \div 2
        exitPrice == _applyExitCost(price, pos.side, FALSE)
        partialPnl == IF pos.side = "BUY"
                      THEN (exitPrice - pos.entryPrice) * halfQty
                      ELSE (pos.entryPrice - exitPrice) * halfQty
        quantity == pos.quantity - halfQty
    IN  [ credit |-> pos.entryPrice * halfQty + partialPnl,
          pos |-> [ pos EXCEPT
                      !.quantity = quantity,
                      !.value = pos.entryPrice * quantity,
                      !.partialTaken = TRUE ] ]

\* the profit-taking tier: the position after it and the amount credited
partialTake(pos, price) ==
    LET halfQty == pos.quantity \div 2
        exitPrice == _applyExitCost(price, pos.side, FALSE)
        partialPnl == IF pos.side = "BUY"
                      THEN (exitPrice - pos.entryPrice) * halfQty
                      ELSE (pos.entryPrice - exitPrice) * halfQty
        quantity == pos.quantity - halfQty
    IN  [ credit |-> pos.entryPrice * halfQty + partialPnl,
          pos |-> [ pos EXCEPT
                      !.quantity = quantity,
                      !.value = pos.entryPrice * quantity,
                      !.partialTaken = TRUE,
                      !.stopLoss = pos.entryPrice,
                      !.trailingStop = IF pos.side = "BUY"
                                       THEN Max(@, pos.entryPrice)
                                       ELSE Min(@, pos.entryPrice) ] ]

\* mutant: the trailing stop is never found hit, so the stop-loss check decides
trailingHitNever(pos, price) == FALSE

trailingHit(pos, price) ==
    IF pos.side = "BUY" THEN price <= pos.trailingStop ELSE price >= pos.trailingStop

\* mutant: a halted manager closes nothing
closeAndRecordUnlessHalted(pf, rm, positionId, exitPrice, reason, time, markPrice) ==
    LET r == closePosition(pf, positionId, exitPrice, reason, time) IN
    IF rm.halted THEN [ portfolio |-> pf, riskManager |-> rm ]
    ELSE [ portfolio |-> r.portfolio,
           riskManager |-> IF r.found
                           THEN recordPnL(rm, r.pnl, getTotalValue(r.portfolio, markPrice))
                           ELSE rm ]

\* result = portfolio.closePosition(...); if (result) riskManager.recordPnL(result.pnl,
\* portfolio.getTotalValue(currentPrice))
closeAndRecord(pf, rm, positionId, exitPrice, reason, time, markPrice) ==
    LET r == closePosition(pf, positionId, exitPrice, reason, time) IN
    [ portfolio |-> r.portfolio,
      riskManager |-> IF r.found
                      THEN recordPnL(rm, r.pnl, getTotalValue(r.portfolio, markPrice))
                      ELSE rm ]

\* one iteration of `for (const pos of [...portfolio.positions])`, for the object obj
exitChecks(pf, rm, obj, price, bar) ==
    LET n == posIndex(pf.positions, obj)
        pos0 == pf.positions[n]
        barsHeld == IF pos0.entryBar # NoBar THEN bar - pos0.entryBar ELSE 0
    IN  IF barsHeld >= maxBarsInTrade
        THEN closeAndRecord(pf, rm, pos0.id, _applyExitCost(price, pos0.side, FALSE),
                            "Stale position", bar, price)
        ELSE
        LET take == ~pos0.partialTaken /\ partialReached(pos0, price)
            pt == partialTake(pos0, price)
            pos1 == IF take THEN pt.pos ELSE pos0
            balance1 == IF take THEN pf.balance + pt.credit ELSE pf.balance
            pos2 == [pos1 EXCEPT !.trailingStop = updateTrailingStop(price, @, pos1.side)]
            pf2 == [pf EXCEPT !.balance = balance1, !.positions[n] = pos2]
            exit == checkExitConditions(pos2, price)
        IN  IF trailingHit(pos2, price) /\ pos2.trailingStop # pos2.stopLoss
            THEN closeAndRecord(pf2, rm, pos2.id, _applyExitCost(price, pos2.side, FALSE),
                                "Trailing stop hit", bar, price)
            ELSE IF exit # ""
            THEN closeAndRecord(pf2, rm, pos2.id,
                                _applyExitCost(price, pos2.side, exit = "Stop-loss hit"),
                                exit, bar, price)
            ELSE [ portfolio |-> pf2, riskManager |-> rm ]

-----------------------------------------------------------------------------
(* Backtester.run: the entry stage of one bar *)

Evaluations ==
    { [signal |-> "HOLD", confidence |-> 0],
      [signal |-> "BUY", confidence |-> 10],
      [signal |-> "BUY", confidence |-> 80],
      [signal |-> "SELL", confidence |-> 80] }

\* the ATR of the bar window: flat candles, or 5 % of the price
Atrs == {0, 10 * PriceScale}

setEntryBar(pf, bar) ==
    [pf EXCEPT !.positions[Len(pf.positions)].entryBar = bar]

\* lines 139-177 of run: rollover, halt and admission checks, signal, sizing, open
entryStage(pf, rm, price, bar, now, evaluation, atr, id, obj) ==
    LET rm1 == checkDayRollover(rm, getTotalValue(pf, price), now)
        skip == [ portfolio |-> pf, riskManager |-> rm1, opened |-> FALSE ]
        side == evaluation.signal
        size == calculatePositionSize(pf.balance, price, atr)
        stopLoss == getStopLoss(price, side)
        takeProfit == getTakeProfit(price, side)
        order == [ side |-> side, price |-> _applyEntryCost(price, side),
                   quantity |-> size.quantity, stopLoss |-> stopLoss,
                   takeProfit |-> takeProfit ]
        r == openPosition(pf, order, id, obj)
    IN  IF isHalted(rm1) THEN skip
        ELSE IF ~canOpenPosition(rm1, Len(pf.positions)) THEN skip
        ELSE IF evaluation.signal = "HOLD" THEN skip
        ELSE IF evaluation.confidence < config.minConfidence THEN skip
        ELSE IF size.quantity <= 0 THEN skip
        ELSE IF ~meetsRiskReward(price, stopLoss, takeProfit) THEN skip
        ELSE [ portfolio |-> IF r.opened THEN setEntryBar(r.portfolio, bar) ELSE r.portfolio,
               riskManager |-> rm1, opened |-> r.opened ]

-----------------------------------------------------------------------------
(* Driver "backtest": Backtester.run over at most MaxBars bars *)

Objs(positions) == [n \in 1..Len(positions) |-> positions[n].obj]

\* run(candles, lookback) has been called on a new Backtester
InitBacktest == mode = "backtest" /\ pc = "start" /\ InitCommon(Configs)

\* lines 51-62: the objects are constructed and the period is logged from
\* candles[0].time, which throws a TypeError when the candle array is empty
BacktestStart ==
    /\ mode = "backtest" /\ pc = "start"
    /\ \E empty \in BOOLEAN :
         /\ pc' = IF empty THEN "threw" ELSE "bar"
         /\ last' = [op |-> "run", empty |-> empty]
    /\ UNCHANGED <<engine, process, exchange, config, mode, portfolio, riskManager, today, i, currentPrice, snapshot, k,
                   nextObj, calls, hist>>

\* the loop head: the next candle exists; its close becomes currentPrice
BacktestBar ==
    /\ mode = "backtest" /\ pc = "bar" /\ i < MaxBars
    /\ \E price \in Prices : currentPrice' = price
    /\ snapshot' = Objs(portfolio.positions)
    /\ k' = 1
    /\ pc' = "exits"
    /\ last' = [op |-> "bar"]
    /\ UNCHANGED <<engine, process, exchange, config, mode, portfolio, riskManager, today, i, nextObj, calls, hist>>

BacktestExit ==
    /\ mode = "backtest" /\ pc = "exits" /\ k <= Len(snapshot)
    /\ LET r == exitChecks(portfolio, riskManager, snapshot[k], currentPrice, i) IN
         /\ portfolio' = r.portfolio
         /\ riskManager' = r.riskManager
         /\ hist' = NoteHalt(r.riskManager)
    /\ k' = k + 1
    /\ last' = [op |-> "exitChecks", obj |-> snapshot[k], halted |-> riskManager.halted]
    /\ UNCHANGED <<engine, process, exchange, config, mode, today, i, pc, currentPrice, snapshot, nextObj, calls>>

BacktestEntry ==
    /\ mode = "backtest" /\ pc = "exits" /\ k > Len(snapshot)
    /\ \E now \in Clock, evaluation \in Evaluations, atr \in Atrs, id \in Ids :
         LET r == entryStage(portfolio, riskManager, currentPrice, i, now,
                             evaluation, atr, id, nextObj)
         IN  /\ portfolio' = r.portfolio
             /\ riskManager' = r.riskManager
             /\ nextObj' = IF r.opened THEN nextObj + 1 ELSE nextObj
             /\ today' = now
             /\ last' = [op |-> "entry", evaluation |-> evaluation,
                         haltBefore |-> riskManager.haltReason, opened |-> r.opened]
             /\ hist' = NoteOpen(r.opened,
                                 r.portfolio.positions[Len(r.portfolio.positions)].quantity)
    /\ i' = i + 1
    /\ pc' = "bar"
    /\ UNCHANGED <<engine, process, exchange, config, mode, currentPrice, snapshot, k, calls>>

\* the candles are exhausted: lines 180-186 start
BacktestEnd ==
    /\ mode = "backtest" /\ pc = "bar"
    /\ snapshot' = Objs(portfolio.positions)
    /\ k' = 1
    /\ pc' = "closing"
    /\ last' = [op |-> "end"]
    /\ UNCHANGED <<engine, process, exchange, config, mode, portfolio, riskManager, today, i, currentPrice, nextObj, calls, hist>>

BacktestClose ==
    /\ mode = "backtest" /\ pc = "closing" /\ k <= Len(snapshot)
    /\ LET pos == portfolio.positions[posIndex(portfolio.positions, snapshot[k])]
           r == closeAndRecord(portfolio, riskManager, pos.id,
                               _applyExitCost(currentPrice, pos.side, FALSE),
                               "End of backtest", i - 1, currentPrice)
       IN  /\ portfolio' = r.portfolio
           /\ riskManager' = r.riskManager
           /\ hist' = NoteHalt(r.riskManager)
    /\ k' = k + 1
    /\ last' = [op |-> "finalClose", obj |-> snapshot[k]]
    /\ UNCHANGED <<engine, process, exchange, config, mode, today, i, pc, currentPrice, snapshot, nextObj, calls>>

BacktestReturn ==
    /\ mode = "backtest" /\ pc = "closing" /\ k > Len(snapshot)
    /\ pc' = "done"
    /\ last' = [op |-> "return", summary |-> getSummary(portfolio, currentPrice)]
    /\ UNCHANGED <<engine, process, exchange, config, mode, portfolio, riskManager, today, i, currentPrice, snapshot, k,
                   nextObj, calls, hist>>

NextBacktest ==
    \/ BacktestStart
    \/ BacktestBar \/ BacktestExit \/ BacktestEntry
    \/ BacktestEnd \/ BacktestClose \/ BacktestReturn

SpecBacktest == InitBacktest /\ [][NextBacktest]_vars

(***************************************************************************)
(* Backtester.run over candles whose closes jump: 200 and 1100, a move of  *)
(* 5.5 times between two bars.                                             *)
(***************************************************************************)
GapCloses == {200, 1100}
GapPrices == {c * PriceScale : c \in GapCloses}

BacktestGapBar ==
    /\ mode = "backtest" /\ pc = "bar" /\ i < MaxBars
    /\ \E price \in GapPrices : currentPrice' = price
    /\ snapshot' = Objs(portfolio.positions)
    /\ k' = 1
    /\ pc' = "exits"
    /\ last' = [op |-> "bar"]
    /\ UNCHANGED <<engine, process, exchange, config, mode, portfolio, riskManager, today, i, nextObj, calls, hist>>

NextBacktestGap ==
    \/ BacktestStart
    \/ BacktestGapBar \/ BacktestExit \/ BacktestEntry
    \/ BacktestEnd \/ BacktestClose \/ BacktestReturn

SpecBacktestGap == InitBacktest /\ [][NextBacktestGap]_vars

-----------------------------------------------------------------------------
(* Driver "periodic": TradingEngine.tick, at most MaxBars ticks *)

\* result = portfolio.closePosition(...); if (result) riskManager.recordPnL(result.pnl,
\* portfolio.balance)
tickCloseAndRecord(pf, rm, positionId, price, reason, time) ==
    LET r == closePosition(pf, positionId, price, reason, time) IN
    [ portfolio |-> r.portfolio,
      riskManager |-> IF r.found THEN recordPnL(rm, r.pnl, r.portfolio.balance) ELSE rm ]

\* one iteration of the position loop of tick, for the object obj
tickExitChecks(pf, rm, obj, price, time) ==
    LET n == posIndex(pf.positions, obj)
        pos0 == pf.positions[n]
        pos1 == [pos0 EXCEPT !.trailingStop = updateTrailingStop(price, @, pos0.side)]
        pf1 == [pf EXCEPT !.positions[n] = pos1]
        exit == checkExitConditions(pos1, price)
    IN  IF trailingHit(pos1, price) /\ pos1.trailingStop # pos1.stopLoss
        THEN tickCloseAndRecord(pf1, rm, pos1.id, price, "Trailing stop hit", time)
        ELSE IF exit # ""
        THEN tickCloseAndRecord(pf1, rm, pos1.id, price, exit, time)
        ELSE [ portfolio |-> pf1, riskManager |-> rm ]

\* the rest of tick: rollover, halt check, signal, admission, sizing, open
tickEntry(pf, rm, price, now, evaluation, id, obj) ==
    LET rm1 == checkDayRollover(rm, NoArg, now)
        skip == [ portfolio |-> pf, riskManager |-> rm1, opened |-> FALSE ]
        side == evaluation.signal
        size == calculatePositionSize(pf.balance, price, NoArg)
        stopLoss == getStopLoss(price, side)
        takeProfit == getTakeProfit(price, side)
        order == [ side |-> side, price |-> price, quantity |-> size.quantity,
                   stopLoss |-> stopLoss, takeProfit |-> takeProfit ]
        r == openPosition(pf, order, id, obj)
    IN  IF isHalted(rm1) THEN skip
        ELSE IF evaluation.signal = "HOLD" THEN skip
        ELSE IF evaluation.confidence < config.minConfidence THEN skip
        ELSE IF ~canOpenPosition(rm1, Len(pf.positions)) THEN skip
        ELSE IF size.quantity <= 0 THEN skip
        ELSE IF ~meetsRiskReward(price, stopLoss, takeProfit) THEN skip
        ELSE [ portfolio |-> r.portfolio, riskManager |-> rm1, opened |-> r.opened ]

InitPeriodic == mode = "periodic" /\ pc = "bar" /\ InitCommon({RunConfig(100)})

\* tick starts: tickCount++, the new candle's close becomes currentPrice
TickCandle ==
    /\ mode = "periodic" /\ pc = "bar" /\ i < MaxBars
    /\ \E price \in Prices : currentPrice' = price
    /\ i' = i + 1
    /\ snapshot' = Objs(portfolio.positions)
    /\ k' = 1
    /\ pc' = "exits"
    /\ last' = [op |-> "tick"]
    /\ UNCHANGED <<engine, process, exchange, config, mode, portfolio, riskManager, today, nextObj, calls, hist>>

TickExit ==
    /\ mode = "periodic" /\ pc = "exits" /\ k <= Len(snapshot)
    /\ LET r == tickExitChecks(portfolio, riskManager, snapshot[k], currentPrice, i) IN
         /\ portfolio' = r.portfolio
         /\ riskManager' = r.riskManager
         /\ hist' = NoteHalt(r.riskManager)
    /\ k' = k + 1
    /\ last' = [op |-> "exitChecks", obj |-> snapshot[k], halted |-> riskManager.halted]
    /\ UNCHANGED <<engine, process, exchange, config, mode, today, i, pc, currentPrice, snapshot, nextObj, calls>>

TickEntry ==
    /\ mode = "periodic" /\ pc = "exits" /\ k > Len(snapshot)
    /\ \E now \in Clock, evaluation \in Evaluations, id \in Ids :
         LET r == tickEntry(portfolio, riskManager, currentPrice, now, evaluation,
                            id, nextObj)
         IN  /\ portfolio' = r.portfolio
             /\ riskManager' = r.riskManager
             /\ nextObj' = IF r.opened THEN nextObj + 1 ELSE nextObj
             /\ today' = now
             /\ last' = [op |-> "entry", evaluation |-> evaluation,
                         haltBefore |-> riskManager.haltReason, opened |-> r.opened]
             /\ hist' = NoteOpen(r.opened,
                                 r.portfolio.positions[Len(r.portfolio.positions)].quantity)
    /\ pc' = "bar"
    /\ UNCHANGED <<engine, process, exchange, config, mode, i, currentPrice, snapshot, k, calls>>

NextPeriodic == TickCandle \/ TickExit \/ TickEntry

SpecPeriodic == InitPeriodic /\ [][NextPeriodic]_vars

-----------------------------------------------------------------------------
(* Both simulation loops: a backtest run or the periodic engine *)

Init == InitBacktest \/ InitPeriodic

Next == NextBacktest \/ NextPeriodic

Spec == Init /\ [][Next]_vars

-----------------------------------------------------------------------------
(* Properties *)

Trades == portfolio.tradeHistory
Open == portfolio.positions

\* the record of the position object obj: the open position, else its trade
RecordOf(pf, obj) ==
    IF isOpen(pf.positions, obj)
    THEN pf.positions[posIndex(pf.positions, obj)]
    ELSE pf.tradeHistory[CHOOSE n \in 1..Len(pf.tradeHistory) :
                             pf.tradeHistory[n].obj = obj]

RECURSIVE SumValue(_)
SumValue(positions) ==
    IF positions = <<>> THEN 0 ELSE Head(positions).value + SumValue(Tail(positions))

RECURSIVE SumPnl(_)
SumPnl(trades) ==
    IF trades = <<>> THEN 0 ELSE Head(trades).pnl + SumPnl(Tail(trades))

\* C1: once recordPnL has set a max_drawdown halt, isHalted() is true after every
\* later sequence of recordPnL and checkDayRollover calls, day changes included.
C1_MaxDrawdownHaltPersists == hist.ddHaltSet => isHalted(riskManager)

\* C2: a daily_loss halt stays set, and no position is opened, in every step that
\* leaves the day marker unchanged; the step in which checkDayRollover sees a new
\* day resets dailyPnL to 0, clears the halt, and the entry attempt that follows
\* it passes the admission check.
C2_DailyLossHaltClearedAtRollover ==
    [][ (riskManager.halted /\ riskManager.haltReason = "daily_loss") =>
          IF riskManager'.dailyResetDate # riskManager.dailyResetDate
          THEN /\ riskManager'.dailyPnL = 0
               /\ ~riskManager'.halted
               /\ Len(Open) < config.maxOpenPositions
               /\ (/\ last'.evaluation.signal # "HOLD"
                   /\ last'.evaluation.confidence >= config.minConfidence)
                  => Len(portfolio'.positions) = Len(Open) + 1
          ELSE /\ riskManager'.halted
               /\ nextObj' = nextObj
               /\ Len(portfolio'.positions) <= Len(Open) ]_vars

\* a daily_loss halt was lifted by the rollover of an entry stage, which then opened
C2_Witness ==
    /\ last.op = "entry"
    /\ last.haltBefore = "daily_loss"
    /\ ~riskManager.halted
    /\ riskManager.dailyPnL = 0
    /\ last.opened

\* C3: in every state of a backtest run and of the periodic engine the number of
\* open positions is at most risk.maxOpenPositions.
C3_OpenPositionsBounded == Len(Open) <= config.maxOpenPositions

\* an entry stage with a tradeable signal ran at the limit and opened nothing
C3_Witness ==
    /\ last.op = "entry"
    /\ Len(Open) = config.maxOpenPositions
    /\ ~riskManager.halted
    /\ last.haltBefore = ""
    /\ last.evaluation.signal # "HOLD"
    /\ last.evaluation.confidence >= config.minConfidence
    /\ ~last.opened

\* C4: over the lifetime of a position its trailingStop never decreases for a BUY and
\* never increases for a SELL, whatever the step (trailing update, partial take, close).
C4_TrailingStopMonotone ==
    [][ \A n \in 1..Len(Open) :
          LET p == Open[n]
              q == RecordOf(portfolio', p.obj)
          IN  IF p.side = "BUY"
              THEN q.trailingStop >= p.trailingStop
              ELSE q.trailingStop <= p.trailingStop ]_vars

\* a LONG position whose stop had been raised is checked at a lower price, which
\* would put the stop lower, and keeps its stop
C4_Witness ==
    /\ last.op = "exitChecks"
    /\ \E n \in 1..Len(Open) :
         /\ Open[n].obj = last.obj
         /\ Open[n].side = "BUY"
         /\ Open[n].trailingStop # Open[n].stopLoss
         /\ Open[n].trailingStop * PctScale
              > currentPrice * (PctScale - config.trailingStopPct)

\* C5: openPosition with price * quantity above the balance returns null and changes
\* nothing; otherwise it debits exactly price * quantity and appends exactly one
\* position with value price * quantity and trailingStop equal to its stopLoss.
C5_OpenPosition ==
    [][ last'.op = "openPosition" =>
          LET o == last'.order
              cost == o.price * o.quantity
              new == portfolio'.positions[Len(portfolio'.positions)]
          IN  IF cost > portfolio.balance
              THEN ~last'.returned /\ portfolio' = portfolio
              ELSE /\ last'.returned
                   /\ portfolio'.balance = portfolio.balance - cost
                   /\ Len(portfolio'.positions) = Len(Open) + 1
                   /\ SubSeq(portfolio'.positions, 1, Len(Open)) = Open
                   /\ portfolio'.tradeHistory = Trades
                   /\ new.value = cost
                   /\ new.entryPrice = o.price /\ new.quantity = o.quantity
                   /\ new.side = o.side
                   /\ new.stopLoss = o.stopLoss
                   /\ new.trailingStop = new.stopLoss ]_vars

\* an open was rejected for insufficient balance while a position is open
C5_Witness ==
    /\ last.op = "openPosition"
    /\ ~last.returned
    /\ last.order.price * last.order.quantity > portfolio.balance
    /\ Len(Open) >= 1

C7_ClosePosition ==
    [][ /\ (last'.op = "closePosition" /\ last'.returned) =>
            \E idx \in 1..Len(Open) :
              LET p == Open[idx]
                  e == last'.price
                  pnl == IF p.side = "BUY" THEN (e - p.entryPrice) * p.quantity
                         ELSE (p.entryPrice - e) * p.quantity
                  t == portfolio'.tradeHistory[Len(portfolio'.tradeHistory)]
              IN  /\ p.id = last'.id
                  /\ last'.pnl = pnl
                  /\ portfolio'.balance = portfolio.balance + p.value + pnl
                  /\ Len(portfolio'.positions) = Len(Open) - 1
                  /\ \A n \in 1..(Len(Open) - 1) :
                        portfolio'.positions[n] = Open[IF n < idx THEN n ELSE n + 1]
                  /\ Len(portfolio'.tradeHistory) = Len(Trades) + 1
                  /\ SubSeq(portfolio'.tradeHistory, 1, Len(Trades)) = Trades
                  /\ t.obj = p.obj /\ t.pnl = pnl /\ t.exitPrice = e
                  /\ t.entryPrice = p.entryPrice /\ t.quantity = p.quantity
        /\ \A n \in 1..Len(portfolio'.tradeHistory) :
              LET t == portfolio'.tradeHistory[n] IN
              t.pnl = IF t.side = "BUY" THEN (t.exitPrice - t.entryPrice) * t.quantity
                      ELSE (t.entryPrice - t.exitPrice) * t.quantity ]_vars

\* a SHORT position was closed above its entry price, at a loss
C7_Witness ==
    /\ last.op = "closePosition"
    /\ last.returned
    /\ last.pnl < 0
    /\ Trades[Len(Trades)].side = "SELL"
    /\ Trades[Len(Trades)].exitPrice > Trades[Len(Trades)].entryPrice

\* C8: after any sequence of openPosition and closePosition calls, balance plus the
\* values of the open positions equals the initial balance plus the recorded pnl.
C8_BalanceConservation ==
    portfolio.balance + SumValue(Open) = config.initialBalance + SumPnl(Trades)

\* 10000 -> open 10 @ 100 -> close @ 102 -> 10020, nothing open, one trade of pnl 20
C8_Witness ==
    /\ mode = "ledger"
    /\ Len(Open) = 0
    /\ Len(Trades) = 1
    /\ Trades[1].side = "BUY"
    /\ Trades[1].entryPrice = 100 * PriceScale
    /\ Trades[1].quantity = 10
    /\ Trades[1].exitPrice = 102 * PriceScale
    /\ Trades[1].pnl = 20 * PriceScale
    /\ portfolio.balance = 10020 * PriceScale

\* the exit checks of the object obj are the step being taken
ChecksOf(obj) ==
    /\ mode = "backtest" /\ pc = "exits" /\ k <= Len(snapshot) /\ snapshot[k] = obj
    /\ k' = k + 1

BarsHeld(p) == IF p.entryBar # NoBar THEN i - p.entryBar ELSE 0

HoldingLimit == IF config.maxBarsInTrade = 0 THEN 100 ELSE config.maxBarsInTrade

\* the price has moved at least half of the take-profit percentage in the
\* position's favour
HalfWayToTarget(p, price) ==
    IF p.side = "BUY"
    THEN 2 * PctScale * (price - p.entryPrice) >= config.takeProfitPct * p.entryPrice
    ELSE 2 * PctScale * (p.entryPrice - price) >= config.takeProfitPct * p.entryPrice

TrailingDue(q, price) ==
    /\ q.trailingStop # q.stopLoss
    /\ IF q.side = "BUY" THEN price <= q.trailingStop ELSE price >= q.trailingStop

StopDue(q, price) ==
    IF q.side = "BUY" THEN price <= q.stopLoss ELSE price >= q.stopLoss

TargetDue(q, price) ==
    IF q.side = "BUY" THEN price >= q.takeProfit ELSE price <= q.takeProfit

\* C9: the partial take fires in the checks of a position exactly when the position is
\* not stale, has taken no partial yet and the price is half way to the target; it
\* leaves half of the quantity the position was opened with, value = entryPrice *
\* quantity, stopLoss = entryPrice, the flag set and a trailing stop no looser than
\* before and than the entry price, and does not itself close the position; the
\* price is then at least half of the way from the entry price to the target.  In
\* every other step quantity, stop and flag of a position stay as they are, so it
\* fires at most once per position.
C9_PartialTake ==
    [][ \A n \in 1..Len(Open) :
          LET p == Open[n]
              q == RecordOf(portfolio', p.obj)
              fires == /\ ChecksOf(p.obj)
                       /\ BarsHeld(p) < HoldingLimit
                       /\ ~p.partialTaken
                       /\ HalfWayToTarget(p, currentPrice)
          IN  IF fires
              THEN /\ 2 * q.quantity = hist.openQty[p.obj]
                   /\ q.value = q.entryPrice * q.quantity
                   /\ q.entryPrice = p.entryPrice
                   /\ q.stopLoss = q.entryPrice
                   /\ q.partialTaken
                   /\ IF q.side = "BUY"
                      THEN 2 * (currentPrice - p.entryPrice) >= p.takeProfit - p.entryPrice
                      ELSE 2 * (p.entryPrice - currentPrice) >= p.entryPrice - p.takeProfit
                   /\ IF q.side = "BUY"
                      THEN q.trailingStop >= p.trailingStop /\ q.trailingStop >= q.entryPrice
                      ELSE q.trailingStop <= p.trailingStop /\ q.trailingStop <= q.entryPrice
                   /\ (~TrailingDue(q, currentPrice) /\ ~StopDue(q, currentPrice)
                         /\ ~TargetDue(q, currentPrice))
                      => isOpen(portfolio'.positions, p.obj)
              ELSE /\ q.quantity = p.quantity
                   /\ q.value = p.value
                   /\ q.stopLoss = p.stopLoss
                   /\ q.partialTaken = p.partialTaken ]_vars

\* a SHORT position is open after its partial take, with half of its quantity
C9_Witness ==
    /\ last.op = "exitChecks"
    /\ \E n \in 1..Len(Open) :
         /\ Open[n].obj = last.obj
         /\ Open[n].side = "SELL"
         /\ Open[n].partialTaken
         /\ 2 * Open[n].quantity = hist.openQty[Open[n].obj]
         /\ Open[n].stopLoss = Open[n].entryPrice

\* C10: the checks of one position in one bar record at most one trade, and its reason
\* is that of the first condition that holds in the order timeout, trailing stop,
\* stop-loss, take-profit (the last three on the position as the partial take and the
\* trailing update leave it); a stale position gets no partial take; when no exit
\* condition holds the position stays open, partial take or not; and no position
\* object has two trades.
C10_ExitPrecedence ==
    [][ /\ \A n \in 1..Len(Open) :
              LET p == Open[n]
                  q == RecordOf(portfolio', p.obj)
                  added == Len(portfolio'.tradeHistory) - Len(Trades)
                  t == portfolio'.tradeHistory[Len(portfolio'.tradeHistory)]
                  expected ==
                      IF BarsHeld(p) >= HoldingLimit THEN "Stale position"
                      ELSE IF TrailingDue(q, currentPrice) THEN "Trailing stop hit"
                      ELSE IF StopDue(q, currentPrice) THEN "Stop-loss hit"
                      ELSE IF TargetDue(q, currentPrice) THEN "Take-profit hit"
                      ELSE ""
              IN  ChecksOf(p.obj) =>
                    /\ added <= 1
                    /\ (expected = "") =>
                          (added = 0 /\ isOpen(portfolio'.positions, p.obj))
                    /\ (expected # "") =>
                          (added = 1 /\ t.exitReason = expected /\ t.exitTime = i)
                    /\ (expected = "Stale position") =>
                          (q.quantity = p.quantity /\ q.trailingStop = p.trailingStop)
        /\ \A a, b \in 1..Len(portfolio'.tradeHistory) :
              a # b => portfolio'.tradeHistory[a].obj # portfolio'.tradeHistory[b].obj
      ]_vars

\* a LONG position was closed for its trailing stop at a price that is also at or
\* below its stop-loss
C10_Witness ==
    /\ mode = "backtest"
    /\ last.op = "exitChecks"
    /\ Len(Trades) >= 1
    /\ LET t == Trades[Len(Trades)] IN
         /\ t.obj = last.obj
         /\ t.exitTime = i
         /\ t.side = "BUY"
         /\ t.exitReason = "Trailing stop hit"
         /\ currentPrice <= t.stopLoss

-----------------------------------------------------------------------------
(* Backtester.run under other configured holding limits *)

\* risk.maxBarsInTrade configured as 0, 1 and 2 bars
LimitConfigs == {RunConfig(0), RunConfig(1), RunConfig(2)}

InitBacktestLimits == mode = "backtest" /\ pc = "start" /\ InitCommon(LimitConfigs)

SpecBacktestLimits == InitBacktestLimits /\ [][NextBacktest]_vars

\* the exit checks of this bar have run for the position object obj
CheckedThisBar(obj) ==
    /\ mode = "backtest" /\ pc = "exits"
    /\ \E n \in 1..(k - 1) : n <= Len(snapshot) /\ snapshot[n] = obj

\* C11: for every configured risk.maxBarsInTrade, a position that has been held for
\* that many bars or more does not survive the exit checks of the bar, so at the end
\* of a bar no position that was open when the bar began has been held for
\* maxBarsInTrade bars or more.
C11_StalePositionsClosed ==
    \A n \in 1..Len(Open) :
        LET p == Open[n] IN
        /\ CheckedThisBar(p.obj) => BarsHeld(p) < config.maxBarsInTrade
        /\ (mode = "backtest" /\ pc = "bar" /\ p.entryBar < i - 1)
              => (i - 1) - p.entryBar < config.maxBarsInTrade

\* C11 for the configured values of at least one bar
C11_StaleClosedForPositiveLimit ==
    config.maxBarsInTrade >= 1 => C11_StalePositionsClosed

\* a position reached the configured limit of one bar and was closed as stale
C11_Witness ==
    /\ mode = "backtest" /\ last.op = "exitChecks"
    /\ config.maxBarsInTrade = 1
    /\ Len(Trades) >= 1
    /\ Trades[Len(Trades)].obj = last.obj
    /\ Trades[Len(Trades)].exitReason = "Stale position"
    /\ i - Trades[Len(Trades)].entryBar = 1

-----------------------------------------------------------------------------
(* Driver "live": LiveTradingEngine.tick, at most MaxBars ticks *)

\* one iteration of the position loop of tick; _closePosition closes in the ledger
\* whether or not the exchange order succeeded, and records against total value
liveExitChecks(pf, rm, obj, price, time) ==
    LET n == posIndex(pf.positions, obj)
        pos0 == pf.positions[n]
        pos1 == [pos0 EXCEPT !.trailingStop = updateTrailingStop(price, @, pos0.side)]
        pf1 == [pf EXCEPT !.positions[n] = pos1]
        exit == checkExitConditions(pos1, price)
    IN  IF trailingHit(pos1, price) /\ pos1.trailingStop # pos1.stopLoss
        THEN closeAndRecord(pf1, rm, pos1.id, price, "Trailing stop hit", time, price)
        ELSE IF exit # ""
        THEN closeAndRecord(pf1, rm, pos1.id, price, exit, time, price)
        ELSE [ portfolio |-> pf1, riskManager |-> rm ]

\* the rest of tick; placed is FALSE when the exchange order of live mode failed
liveEntry(pf, rm, price, now, evaluation, atr, placed, id, obj) ==
    LET rm1 == checkDayRollover(rm, getTotalValue(pf, price), now)
        skip == [ portfolio |-> pf, riskManager |-> rm1, opened |-> FALSE ]
        side == evaluation.signal
        size == calculatePositionSize(pf.balance, price, atr)
        stopLoss == getStopLoss(price, side)
        takeProfit == getTakeProfit(price, side)
        order == [ side |-> side, price |-> price, quantity |-> size.quantity,
                   stopLoss |-> stopLoss, takeProfit |-> takeProfit ]
        r == openPosition(pf, order, id, obj)
    IN  IF isHalted(rm1) THEN skip
        ELSE IF evaluation.signal = "HOLD" THEN skip
        ELSE IF evaluation.confidence < config.minConfidence THEN skip
        ELSE IF ~canOpenPosition(rm1, Len(pf.positions)) THEN skip
        ELSE IF size.quantity <= 0 THEN skip
        ELSE IF ~meetsRiskReward(price, stopLoss, takeProfit) THEN skip
        ELSE IF ~placed THEN skip
        ELSE [ portfolio |-> r.portfolio, riskManager |-> rm1, opened |-> r.opened ]

InitLive == mode = "live" /\ pc = "bar" /\ InitCommon({RunConfig(100)})

\* tick starts: tickCount++, the close of the latest candle becomes currentPrice
LiveCandle ==
    /\ mode = "live" /\ pc = "bar" /\ i < MaxBars
    /\ \E price \in Prices : currentPrice' = price
    /\ i' = i + 1
    /\ snapshot' = Objs(portfolio.positions)
    /\ k' = 1
    /\ pc' = "exits"
    /\ last' = [op |-> "tick"]
    /\ UNCHANGED <<engine, process, exchange, config, mode, portfolio, riskManager, today, nextObj, calls, hist>>

LiveExit ==
    /\ mode = "live" /\ pc = "exits" /\ k <= Len(snapshot)
    /\ LET r == liveExitChecks(portfolio, riskManager, snapshot[k], currentPrice, i) IN
         /\ portfolio' = r.portfolio
         /\ riskManager' = r.riskManager
         /\ hist' = NoteHalt(r.riskManager)
    /\ k' = k + 1
    /\ last' = [op |-> "exitChecks", obj |-> snapshot[k], halted |-> riskManager.halted]
    /\ UNCHANGED <<engine, process, exchange, config, mode, today, i, pc, currentPrice, snapshot, nextObj, calls>>

LiveEntry ==
    /\ mode = "live" /\ pc = "exits" /\ k > Len(snapshot)
    /\ \E now \in Clock, evaluation \in Evaluations, atr \in Atrs, placed \in BOOLEAN,
          id \in Ids :
         LET r == liveEntry(portfolio, riskManager, currentPrice, now, evaluation,
                            atr, placed, id, nextObj)
         IN  /\ portfolio' = r.portfolio
             /\ riskManager' = r.riskManager
             /\ nextObj' = IF r.opened THEN nextObj + 1 ELSE nextObj
             /\ today' = now
             /\ last' = [op |-> "entry", evaluation |-> evaluation,
                         haltBefore |-> riskManager.haltReason, opened |-> r.opened]
             /\ hist' = NoteOpen(r.opened,
                                 r.portfolio.positions[Len(r.portfolio.positions)].quantity)
    /\ pc' = "bar"
    /\ UNCHANGED <<engine, process, exchange, config, mode, i, currentPrice, snapshot, k, calls>>

NextLive == LiveCandle \/ LiveExit \/ LiveEntry

SpecLive == InitLive /\ [][NextLive]_vars

-----------------------------------------------------------------------------
(***************************************************************************)
(* Driver "exchange": LiveTradingEngine with paperMode false, started by   *)
(* run-live.js.  start() runs the loop while (this.running) { await        *)
(* this.tick(); await this._sleep(...) }; tick suspends at its awaits:     *)
(* getCandles, and the market order of _closePosition and _openPosition.   *)
(* The signal handler and the exit timer of run-live.js are callbacks of   *)
(* the event loop: they run only while the engine is suspended.            *)
(***************************************************************************)

MaxSignals == 1   \* SIGINT / SIGTERM deliveries

\* closes of the latest candle fetched by a tick
FetchedCloses == {193, 200, 212}
FetchedPrices == {c * PriceScale : c \in FetchedCloses}

\* order.fills?.[0]?.price of a response: none reported, or half a unit above the
\* price the engine has seen
Fills(price) == {NoArg, price + PriceScale \div 2}

\* `await this.tick()` lets the loop go on without waiting for the tick
tickAwaitedAtOnce(e) == TRUE

\* `await this.tick()`: the loop goes on when the tick it has started has returned
tickAwaited(e) == e.inFlight = 0

\* the body of `for (const pos of [...this.portfolio.positions])` up to its await:
\* the trailing stop is updated, and reason is that of the close to be ordered
liveExitDecision(pf, obj, price) ==
    LET n == posIndex(pf.positions, obj)
        pos0 == pf.positions[n]
        pos1 == [pos0 EXCEPT !.trailingStop = updateTrailingStop(price, @, pos0.side)]
    IN  [ portfolio |-> [pf EXCEPT !.positions[n] = pos1],
          pos |-> pos1,
          reason |-> IF trailingHit(pos1, price) /\ pos1.trailingStop # pos1.stopLoss
                     THEN "Trailing stop hit"
                     ELSE checkExitConditions(pos1, price) ]

\* lines 155-187 of tick: the checks before the opening order, and that order
liveOrder(pf, rm1, price, evaluation, atr) ==
    LET side == evaluation.signal
        size == calculatePositionSize(pf.balance, price, atr)
        stopLoss == getStopLoss(price, side)
        takeProfit == getTakeProfit(price, side)
    IN  [ send |-> /\ ~isHalted(rm1)
                   /\ evaluation.signal # "HOLD"
                   /\ evaluation.confidence >= config.minConfidence
                   /\ canOpenPosition(rm1, Len(pf.positions))
                   /\ size.quantity > 0
                   /\ meetsRiskReward(price, stopLoss, takeProfit),
          order |-> [ kind |-> "open", side |-> side, price |-> price,
                      quantity |-> size.quantity, stopLoss |-> stopLoss,
                      takeProfit |-> takeProfit ] ]

\* _closePosition after its order: the ledger close ignoring the response
closeAtLocalPrice(pf, rm, order, fill, price, time) ==
    closeAndRecord(pf, rm, order.id, price, order.reason, time, price)

\* _openPosition after a successful order: fills?.[0]?.price || price
fillPrice(fill, price) == IF fill = NoArg THEN price ELSE fill

\* the exchange account after a market order has been executed
executed(ex, side, quantity) ==
    [ position |-> IF side = "BUY" THEN ex.position + quantity ELSE ex.position - quantity,
      orders |-> ex.orders + 1 ]

InitExchange == mode = "exchange" /\ pc = "idle" /\ InitCommon({RunConfig(100)})

\* the engine is suspended at an await, or the loop sleeps or has ended
Suspended ==
    \/ engine.inFlight > 0 /\ pc \in {"fetch", "closeOrder", "openOrder"}
    \/ engine.loop \in {"sleep", "returned"}

\* engine.start(): this.running = true, then the loop is entered
XStart ==
    /\ mode = "exchange" /\ ~process.exited /\ engine.loop = "new"
    /\ engine' = [engine EXCEPT !.running = TRUE, !.loop = "test"]
    /\ last' = [op |-> "start"]
    /\ UNCHANGED <<process, exchange, config, mode, portfolio, riskManager, today, i, pc,
                   currentPrice, snapshot, k, nextObj, calls, hist>>

\* while (this.running): tick() is called, tickCount++, getCandles is awaited; or
\* start() returns
XLoopTest ==
    /\ mode = "exchange" /\ ~process.exited /\ engine.loop = "test"
    /\ engine.running => i < MaxBars
    /\ IF engine.running
       THEN /\ engine' = [engine EXCEPT !.loop = "await", !.inFlight = @ + 1]
            /\ i' = i + 1
            /\ pc' = "fetch"
            /\ last' = [op |-> "tick"]
       ELSE /\ engine' = [engine EXCEPT !.loop = "returned"]
            /\ last' = [op |-> "startReturned"]
            /\ UNCHANGED <<i, pc>>
    /\ UNCHANGED <<process, exchange, config, mode, portfolio, riskManager, today,
                   currentPrice, snapshot, k, nextObj, calls, hist>>

\* getCandles has answered (or failed: the cached candles are used)
XFetch ==
    /\ mode = "exchange" /\ ~process.exited /\ pc = "fetch"
    /\ \E price \in FetchedPrices : currentPrice' = price
    /\ snapshot' = Objs(portfolio.positions)
    /\ k' = 1
    /\ pc' = "exits"
    /\ last' = [op |-> "candles"]
    /\ UNCHANGED <<engine, process, exchange, config, mode, portfolio, riskManager, today, i,
                   nextObj, calls, hist>>

\* one position of the loop: nothing to close, or the closing order is sent
XExit ==
    /\ mode = "exchange" /\ ~process.exited /\ pc = "exits" /\ k <= Len(snapshot)
    /\ LET d == liveExitDecision(portfolio, snapshot[k], currentPrice) IN
         /\ portfolio' = d.portfolio
         /\ IF d.reason = ""
            THEN /\ k' = k + 1
                 /\ UNCHANGED <<engine, pc>>
            ELSE /\ engine' = [engine EXCEPT !.pending =
                                  [ kind |-> "close", obj |-> d.pos.obj, id |-> d.pos.id,
                                    side |-> IF d.pos.side = "BUY" THEN "SELL" ELSE "BUY",
                                    quantity |-> d.pos.quantity, reason |-> d.reason ]]
                 /\ pc' = "closeOrder"
                 /\ UNCHANGED k
    /\ last' = [op |-> "exitChecks", obj |-> snapshot[k], halted |-> riskManager.halted]
    /\ UNCHANGED <<process, exchange, config, mode, riskManager, today, i, currentPrice,
                   snapshot, nextObj, calls, hist>>

\* the closing order has been answered or has failed; the ledger is closed
XCloseOrder ==
    /\ mode = "exchange" /\ ~process.exited /\ pc = "closeOrder"
    /\ \E ok \in BOOLEAN, fill \in Fills(currentPrice) :
         LET order == engine.pending
             r == closeAtLocalPrice(portfolio, riskManager, order, fill, currentPrice, i)
         IN  /\ exchange' = IF ok THEN executed(exchange, order.side, order.quantity)
                            ELSE exchange
             /\ portfolio' = r.portfolio
             /\ riskManager' = r.riskManager
             /\ hist' = NoteHalt(r.riskManager)
             /\ last' = [op |-> "closeOrder", obj |-> order.obj, ok |-> ok, fill |-> fill]
    /\ engine' = [engine EXCEPT !.pending = NoOrder]
    /\ k' = k + 1
    /\ pc' = "exits"
    /\ UNCHANGED <<process, config, mode, today, i, currentPrice, snapshot, nextObj, calls>>

\* the rest of tick: the checks pass and the opening order is sent, or tick returns
XEntry ==
    /\ mode = "exchange" /\ ~process.exited /\ pc = "exits" /\ k > Len(snapshot)
    /\ \E now \in Clock, evaluation \in Evaluations, atr \in Atrs :
         LET rm1 == checkDayRollover(riskManager, getTotalValue(portfolio, currentPrice), now)
             o == liveOrder(portfolio, rm1, currentPrice, evaluation, atr)
         IN  /\ riskManager' = rm1
             /\ today' = now
             /\ IF o.send
                THEN /\ engine' = [engine EXCEPT !.pending = o.order]
                     /\ pc' = "openOrder"
                ELSE /\ engine' = [engine EXCEPT !.inFlight = @ - 1]
                     /\ pc' = "idle"
             /\ last' = [op |-> "entry", evaluation |-> evaluation,
                         haltBefore |-> riskManager.haltReason, opened |-> FALSE,
                         sent |-> o.send]
    /\ UNCHANGED <<process, exchange, config, mode, portfolio, i, currentPrice, snapshot, k,
                   nextObj, calls, hist>>

\* the opening order has been answered or has failed; tick returns
XOpenOrder ==
    /\ mode = "exchange" /\ ~process.exited /\ pc = "openOrder"
    /\ \E ok \in BOOLEAN, fill \in Fills(currentPrice), id \in Ids :
         LET order == engine.pending
             r == openPosition(portfolio, [order EXCEPT !.price = fillPrice(fill, order.price)],
                               id, nextObj)
             opened == ok /\ r.opened
         IN  /\ exchange' = IF ok THEN executed(exchange, order.side, order.quantity)
                            ELSE exchange
             /\ portfolio' = IF ok THEN r.portfolio ELSE portfolio
             /\ nextObj' = IF opened THEN nextObj + 1 ELSE nextObj
             /\ hist' = NoteOpen(opened, order.quantity)
             /\ last' = [op |-> "openOrder", ok |-> ok, fill |-> fill, opened |-> opened,
                         price |-> order.price]
    /\ engine' = [engine EXCEPT !.pending = NoOrder, !.inFlight = @ - 1]
    /\ pc' = "idle"
    /\ UNCHANGED <<process, config, mode, riskManager, today, i, currentPrice, snapshot, k,
                   calls>>

\* the awaited tick has returned: _sleep(pollIntervalMs) is awaited
XLoopResume ==
    /\ mode = "exchange" /\ ~process.exited /\ engine.loop = "await"
    /\ tickAwaited(engine)
    /\ engine' = [engine EXCEPT !.loop = "sleep"]
    /\ last' = [op |-> "sleep"]
    /\ UNCHANGED <<process, exchange, config, mode, portfolio, riskManager, today, i, pc,
                   currentPrice, snapshot, k, nextObj, calls, hist>>

\* the poll sleep has elapsed
XSleepElapsed ==
    /\ mode = "exchange" /\ ~process.exited /\ engine.loop = "sleep"
    /\ engine' = [engine EXCEPT !.loop = "test"]
    /\ last' = [op |-> "wake"]
    /\ UNCHANGED <<process, exchange, config, mode, portfolio, riskManager, today, i, pc,
                   currentPrice, snapshot, k, nextObj, calls, hist>>

\* shutdown of run-live.js on SIGINT / SIGTERM: engine.stop(), then
\* setTimeout(() => process.exit(0), 1000)
XShutdown ==
    /\ mode = "exchange" /\ ~process.exited /\ Suspended
    /\ process.signals < MaxSignals
    /\ engine' = [engine EXCEPT !.running = FALSE]
    /\ process' = [process EXCEPT !.signals = @ + 1, !.timers = @ + 1]
    /\ last' = [op |-> "shutdown"]
    /\ UNCHANGED <<exchange, config, mode, portfolio, riskManager, today, i, pc,
                   currentPrice, snapshot, k, nextObj, calls, hist>>

\* the timer set by shutdown fires: process.exit(0)
XExitTimer ==
    /\ mode = "exchange" /\ ~process.exited /\ Suspended
    /\ process.timers > 0
    /\ process' = [process EXCEPT !.exited = TRUE]
    /\ last' = [op |-> "exit"]
    /\ UNCHANGED <<engine, exchange, config, mode, portfolio, riskManager, today, i, pc,
                   currentPrice, snapshot, k, nextObj, calls, hist>>

NextExchange ==
    \/ XStart \/ XLoopTest \/ XFetch \/ XExit \/ XCloseOrder \/ XEntry \/ XOpenOrder
    \/ XLoopResume \/ XSleepElapsed \/ XShutdown \/ XExitTimer

SpecExchange == InitExchange /\ [][NextExchange]_vars

-----------------------------------------------------------------------------
(* The three loops: a backtest run, the periodic engine or the live engine *)

InitLoops == InitBacktest \/ InitPeriodic \/ InitLive

NextLoops == NextBacktest \/ NextPeriodic \/ NextLive

SpecLoops == InitLoops /\ [][NextLoops]_vars

\* the position-loop iteration of the object obj, in any of the loops, is the step
IterationOf(obj) ==
    /\ pc = "exits" /\ k <= Len(snapshot) /\ snapshot[k] = obj
    /\ k' = k + 1

\* an exit condition of the loop holds for the position p, checked as q
ExitDue(p, q) ==
    \/ mode = "backtest" /\ BarsHeld(p) >= HoldingLimit
    \/ TrailingDue(q, currentPrice)
    \/ StopDue(q, currentPrice)
    \/ TargetDue(q, currentPrice)

\* C12: an entry stage that finds the manager halted opens nothing; and with the
\* manager halted the position loop still runs for every open position before the
\* entry stage, and an iteration in which an exit condition holds closes a position
\* and records its trade in that same bar.
C12_HaltBlocksEntriesNotExits ==
    [][ /\ (last'.op = "entry" /\ riskManager'.halted) =>
              (/\ portfolio' = portfolio
               /\ nextObj' = nextObj
               /\ k > Len(snapshot))
        /\ riskManager.halted =>
              \A n \in 1..Len(Open) :
                  LET p == Open[n]
                      q == RecordOf(portfolio', p.obj)
                  IN  (IterationOf(p.obj) /\ ExitDue(p, q)) =>
                        /\ Len(portfolio'.positions) = Len(Open) - 1
                        /\ Len(portfolio'.tradeHistory) = Len(Trades) + 1
                        /\ portfolio'.tradeHistory[Len(Trades) + 1].exitTime = i ]_vars

\* the position loop ran for a position with the manager halted, and closed it
\* for its take-profit
C12_Witness ==
    /\ last.op = "exitChecks"
    /\ last.halted
    /\ riskManager.halted
    /\ Len(Trades) >= 2
    /\ Trades[Len(Trades)].obj = last.obj
    /\ Trades[Len(Trades)].exitTime = i
    /\ Trades[Len(Trades)].exitReason = "Take-profit hit"

\* C13: canOpenPosition(n) returns true exactly when the manager is not halted and
\* n is below risk.maxOpenPositions; at n = maxOpenPositions it returns false,
\* halted or not.
C13_CanOpenPosition ==
    last.op = "canOpenPosition" =>
        /\ last.returned = (~riskManager.halted
                             /\ last.openPositionCount < config.maxOpenPositions)
        /\ last.openPositionCount = config.maxOpenPositions => ~last.returned

\* a manager that is not halted refuses at exactly the configured maximum
C13_Witness ==
    /\ last.op = "canOpenPosition"
    /\ ~riskManager.halted
    /\ last.openPositionCount = config.maxOpenPositions
    /\ ~last.returned

\* the trades of the position object obj
TradesOf(obj) == {n \in 1..Len(Trades) : Trades[n].obj = obj}

\* the nominal price moved against the trader by the configured entry/exit cost
NominalExit(price, side) ==
    LET t == config.slippageBps + config.spreadBps + config.commissionBps IN
    IF side = "BUY" THEN MulDiv(price, BpsScale - t, BpsScale)
    ELSE MulDiv(price, BpsScale + t, BpsScale)

\* C14: when Backtester.run has returned, no position is open, every position that
\* was opened has exactly one trade in the history, and the positions that were open
\* after the last bar have been closed with the reason "End of backtest", at the time
\* of the last bar and at its close (as the cost model fills it).
C14_AllClosedAtReturn ==
    (mode = "backtest" /\ pc = "done") =>
        /\ Len(Open) = 0
        /\ Len(Trades) = nextObj - 1
        /\ \A obj \in 1..(nextObj - 1) : Cardinality(TradesOf(obj)) = 1
        /\ \A n \in 1..Len(snapshot) :
              \E m \in TradesOf(snapshot[n]) :
                  /\ Trades[m].exitReason = "End of backtest"
                  /\ Trades[m].exitTime = i - 1
                  /\ Trades[m].exitPrice = NominalExit(currentPrice, Trades[m].side)
        /\ \A m \in 1..Len(Trades) :
              Trades[m].exitReason = "End of backtest" =>
                  \E n \in 1..Len(snapshot) : snapshot[n] = Trades[m].obj

\* a run has returned after closing one position during the bars and two at the end
C14_Witness ==
    /\ mode = "backtest" /\ pc = "done"
    /\ Len(Trades) = 3
    /\ Len(snapshot) = 2
    /\ Trades[1].exitReason # "End of backtest"
    /\ Trades[3].exitReason = "End of backtest"

\* the run is over: it has returned its result, or an exception has ended it
Returned == mode = "backtest" /\ pc = "done"
Threw == mode = "backtest" /\ pc = "threw"

\* C15: for every bar sequence, empty and shorter than the warm-up offset included,
\* Backtester.run is not ended by an exception and, until it has returned, has a
\* next step to take.
C15_RunReturns ==
    mode = "backtest" => (~Threw /\ (Returned \/ ENABLED NextBacktest))

\* C15, second part: a run that has neither returned nor thrown is at the loop
\* head, or in one of the two position loops with the position to check still open
C15_RunGoesOn ==
    mode = "backtest" =>
        /\ pc \in {"start", "bar", "exits", "closing", "done", "threw"}
        /\ (pc \in {"exits", "closing"} /\ k <= Len(snapshot))
              => isOpen(portfolio.positions, snapshot[k])

\* C15 for the bar sequences that hold at least one candle: the bars are taken in
\* ascending order, one exit pass and one entry stage each, whatever the entry
\* stage decides, and no exception ends the run.
C15_NonEmptyRunReturns ==
    [][ mode = "backtest" =>
          /\ Threw' => (last'.op = "run" /\ last'.empty)
          /\ i' \in {i, i + 1}
          /\ last'.op = "entry" <=> i' = i + 1
          /\ last'.op = "entry" => pc' = "bar" ]_vars

\* a run whose entry stages all opened nothing has returned, with no trade
C15_Witness ==
    /\ Returned
    /\ i = MaxBars
    /\ nextObj = 1
    /\ Len(Trades) = 0

-----------------------------------------------------------------------------
(* Driver "calc": calls of the pure methods of RiskManager and Backtester *)

\* every combination of a cost of 0 and the shipped cost, per cost setting
CostConfigs ==
    { [ ShippedConfig EXCEPT
          !.slippageBps = a, !.spreadBps = b, !.commissionBps = c, !.stopSlippageBps = d ] :
      a \in {0, 3}, b \in {0, 2}, c \in {0, 10}, d \in {0, 8} }

\* stop-loss 2 %, take-profit 1 %, required reward/risk ratio 2
GateConfig ==
    [ ShippedConfig EXCEPT !.stopLossPct = 20, !.takeProfitPct = 10, !.riskRewardRatio = 20 ]

\* 0.5 % of the balance at risk: the sized notional stays below the 25 % cap
SizeConfig == [ ShippedConfig EXCEPT !.maxPositionSizePct = 5 ]

CalcConfigs == CostConfigs \cup {GateConfig, SizeConfig}

CalcEntries == {100 * PriceScale, 200 * PriceScale}
CalcStops == {c * PriceScale : c \in {97, 98, 100, 102, 194}}
CalcTargets == {c * PriceScale : c \in {96, 99, 100, 101, 103, 104, 106, 212}}

InitCalc == mode = "calc" /\ pc = "api" /\ InitCommon(CalcConfigs)

CalcMeetsRiskReward ==
    /\ mode = "calc"
    /\ \E entryPrice \in CalcEntries, stopLoss \in CalcStops, takeProfit \in CalcTargets :
         last' = [op |-> "meetsRiskReward", entryPrice |-> entryPrice,
                  stopLoss |-> stopLoss, takeProfit |-> takeProfit,
                  returned |-> meetsRiskReward(entryPrice, stopLoss, takeProfit)]
    /\ UNCHANGED <<engine, process, exchange, config, mode, portfolio, riskManager, today, i, pc, currentPrice, snapshot,
                   k, nextObj, calls, hist>>

CalcNominals == {100 * PriceScale, 200 * PriceScale, 40000 * PriceScale}

CalcApplyEntryCost ==
    /\ mode = "calc"
    /\ \E price \in CalcNominals, side \in Sides :
         last' = [op |-> "_applyEntryCost", price |-> price, side |-> side,
                  returned |-> _applyEntryCost(price, side)]
    /\ UNCHANGED <<engine, process, exchange, config, mode, portfolio, riskManager, today, i, pc, currentPrice, snapshot,
                   k, nextObj, calls, hist>>

CalcApplyExitCost ==
    /\ mode = "calc"
    /\ \E price \in CalcNominals, side \in Sides, isStopLoss \in BOOLEAN :
         last' = [op |-> "_applyExitCost", price |-> price, side |-> side,
                  isStopLoss |-> isStopLoss,
                  returned |-> _applyExitCost(price, side, isStopLoss)]
    /\ UNCHANGED <<engine, process, exchange, config, mode, portfolio, riskManager, today, i, pc, currentPrice, snapshot,
                   k, nextObj, calls, hist>>

CalcBalances == {0 - 100 * PriceScale, 0, 40 * PriceScale, 1000 * PriceScale, 10000 * PriceScale}

\* no candles, flat candles, and ATRs of 0.01 %, 1 %, 1.5 %, 2 % and 10 % of a price of 100
CalcAtrs == {NoArg, 0, 100, PriceScale, 15000, 2 * PriceScale, 10 * PriceScale}

CalcPositionSize ==
    /\ mode = "calc"
    /\ \E balance \in CalcBalances, price \in CalcNominals, atr \in CalcAtrs :
         LET r == calculatePositionSize(balance, price, atr) IN
         last' = [op |-> "calculatePositionSize", balance |-> balance, price |-> price,
                  atr |-> atr, quantity |-> r.quantity, value |-> r.value,
                  scalar |-> IF atr # NoArg /\ atr > 0 THEN volScalar(price, atr) ELSE NoArg]
    /\ UNCHANGED <<engine, process, exchange, config, mode, portfolio, riskManager, today, i, pc, currentPrice, snapshot,
                   k, nextObj, calls, hist>>

NextCalc ==
    \/ CalcMeetsRiskReward \/ CalcApplyEntryCost \/ CalcApplyExitCost \/ CalcPositionSize

SpecCalc == InitCalc /\ [][NextCalc]_vars

-----------------------------------------------------------------------------
(* The risk/reward gate: the method, and Backtester.run with a failing gate *)

GateRunConfigs == {GateConfig, RunConfig(100)}

InitBacktestGate == mode = "backtest" /\ pc = "start" /\ InitCommon(GateRunConfigs)

InitGate == InitCalc \/ InitBacktestGate

NextGate == NextCalc \/ NextBacktest

SpecGate == InitGate /\ [][NextGate]_vars

\* reward / risk >= required ratio, on the distances of stop and target from the entry
RatioMet(entryPrice, stopLoss, takeProfit) ==
    /\ entryPrice # stopLoss
    /\ 10 * Abs(takeProfit - entryPrice) >= config.riskRewardRatio * Abs(entryPrice - stopLoss)

\* C16: meetsRiskReward(entry, stop, target) returns true exactly when the risk
\* distance is above 0 and reward / risk is at least risk.riskRewardRatio; and an
\* entry stage of Backtester.run whose stop and target miss the ratio opens nothing.
C16_RiskRewardGate ==
    [][ /\ last'.op = "meetsRiskReward" =>
              last'.returned = RatioMet(last'.entryPrice, last'.stopLoss, last'.takeProfit)
        /\ (mode = "backtest" /\ last'.op = "entry") =>
              \A side \in Sides :
                  LET d == currentPrice \div PctScale
                      stop == IF side = "BUY" THEN currentPrice - d * config.stopLossPct
                              ELSE currentPrice + d * config.stopLossPct
                      target == IF side = "BUY" THEN currentPrice + d * config.takeProfitPct
                                ELSE currentPrice - d * config.takeProfitPct
                  IN  (last'.evaluation.signal = side /\ ~RatioMet(currentPrice, stop, target))
                        => (~last'.opened /\ portfolio' = portfolio) ]_vars

\* with a required ratio of 2: entry 100, stop 98, target 101 is rejected
C16_Witness ==
    /\ last.op = "meetsRiskReward"
    /\ config.riskRewardRatio = 20
    /\ last.entryPrice = 100 * PriceScale
    /\ last.stopLoss = 98 * PriceScale
    /\ last.takeProfit = 101 * PriceScale
    /\ ~last.returned

\* an entry stage with a tradeable signal, not halted, missed the ratio and
\* opened nothing
C16_WitnessRun ==
    /\ mode = "backtest" /\ last.op = "entry"
    /\ config = GateConfig
    /\ last.evaluation.signal = "BUY" /\ last.evaluation.confidence >= config.minConfidence
    /\ ~riskManager.halted
    /\ ~last.opened

-----------------------------------------------------------------------------
(* Stop and target of a position opened by Backtester.run *)

\* the position the last entry stage has opened
Newest == portfolio.positions[Len(portfolio.positions)]

JustOpened == mode = "backtest" /\ last.op = "entry" /\ last.opened

\* C17: a position opened by Backtester.run has its stop-loss below (BUY) or above
\* (SELL) its entry price by exactly stopLossPct percent of that entry price, and
\* its take-profit on the other side by exactly takeProfitPct percent (to the tick).
C17_LevelsFromEntryPrice ==
    JustOpened =>
        /\ Abs(Newest.stopLoss - getStopLoss(Newest.entryPrice, Newest.side)) <= 1
        /\ Abs(Newest.takeProfit - getTakeProfit(Newest.entryPrice, Newest.side)) <= 1

\* what run does: the levels are the percentages of the bar's close, while the
\* entry price of the position is the close moved by the entry costs
C17_LevelsFromClose ==
    JustOpened =>
        /\ Newest.stopLoss = getStopLoss(currentPrice, Newest.side)
        /\ Newest.takeProfit = getTakeProfit(currentPrice, Newest.side)
        /\ Newest.entryPrice = _applyEntryCost(currentPrice, Newest.side)
        /\ Newest.side = "BUY" => Newest.stopLoss < Newest.entryPrice
                                   /\ Newest.takeProfit > Newest.entryPrice
        /\ Newest.side = "SELL" => Newest.stopLoss > Newest.entryPrice
                                    /\ Newest.takeProfit < Newest.entryPrice

C17_Witness ==
    /\ JustOpened
    /\ Newest.side = "BUY"
    /\ Newest.entryPrice > currentPrice
    /\ Newest.stopLoss = getStopLoss(currentPrice, "BUY")
    /\ Newest.stopLoss < getStopLoss(Newest.entryPrice, "BUY") - 1

-----------------------------------------------------------------------------
(* Fills of the cost model *)

\* the total the configuration asks for, in basis points
ConfiguredBps(isStopFill) ==
    config.slippageBps + config.spreadBps + config.commissionBps
        + (IF isStopFill THEN config.stopSlippageBps ELSE 0)

\* C18: for every non-negative configured slippageBps, spreadBps, commissionBps and
\* stopSlippageBps the entry fill is nominal * (1 + t/10000) for BUY and
\* nominal * (1 - t/10000) for SELL, t being their configured total, and the exit
\* fill is moved the other way by t plus stopSlippageBps only on a stop fill.
C18_FillsFromConfiguredBps ==
    /\ last.op = "_applyEntryCost" =>
          last.returned = MulDiv(last.price,
                                 IF last.side = "BUY" THEN BpsScale + ConfiguredBps(FALSE)
                                 ELSE BpsScale - ConfiguredBps(FALSE), BpsScale)
    /\ last.op = "_applyExitCost" =>
          last.returned = MulDiv(last.price,
                                 IF last.side = "BUY"
                                 THEN BpsScale - ConfiguredBps(last.isStopLoss)
                                 ELSE BpsScale + ConfiguredBps(last.isStopLoss), BpsScale)

AllCostsConfigured ==
    /\ config.slippageBps > 0 /\ config.spreadBps > 0
    /\ config.commissionBps > 0 /\ config.stopSlippageBps > 0

\* what the cost model guarantees: the stated fills when no configured value is 0,
\* and for every configuration fills against the trader, stop fills no better
C18_FillsAgainstTrader ==
    /\ AllCostsConfigured => C18_FillsFromConfiguredBps
    /\ last.op = "_applyEntryCost" =>
          IF last.side = "BUY" THEN last.returned >= last.price
          ELSE last.returned <= last.price
    /\ last.op = "_applyExitCost" =>
          LET other == _applyExitCost(last.price, last.side, ~last.isStopLoss)
              stop == IF last.isStopLoss THEN last.returned ELSE other
              plain == IF last.isStopLoss THEN other ELSE last.returned
          IN  IF last.side = "BUY" THEN stop <= plain /\ plain <= last.price
              ELSE stop >= plain /\ plain >= last.price

\* all four values configured as 0: a BUY entry at 100 is filled at 100.15
C18_Witness ==
    /\ last.op = "_applyEntryCost"
    /\ ConfiguredBps(TRUE) = 0
    /\ last.side = "BUY" /\ last.price = 100 * PriceScale
    /\ last.returned = 100 * PriceScale + 1500

-----------------------------------------------------------------------------
(* Position sizing *)

\* balance * maxPositionSizePct / 100, times the volatility scalar when one applies
RiskAmount(balance, scalar) ==
    LET base == MulDiv(balance, config.maxPositionSizePct, PctScale) IN
    IF scalar = NoArg THEN base ELSE MulDiv(base, scalar, 1000)

C19_WitnessBelowCap ==
    /\ last.op = "calculatePositionSize"
    /\ last.scalar = 500
    /\ last.quantity > 0
    /\ 4 * last.value < last.balance

\* nothing to size from
C19_WitnessNoBalance ==
    /\ last.op = "calculatePositionSize"
    /\ last.balance <= 0
    /\ last.quantity <= 0

-----------------------------------------------------------------------------
(* Halts set by recordPnL *)

\* the day's accumulated P&L after the call is beyond the daily loss limit
LossBreached ==
    riskManager'.dailyPnL < 0 - (config.initialBalance \div PctScale) * config.maxDailyLossPct

\* the equity passed to the call is maxDrawdownPct percent or more below the peak
DrawdownBreached ==
    riskManager'.peakBalance - last'.currentBalance
        >= (riskManager'.peakBalance \div PctScale) * config.maxDrawdownPct

\* C20: recordPnL(pnl, equity) adds pnl to the day's P&L and raises the peak to the
\* equity; it sets the daily_loss halt when the day's P&L is below
\* -initialBalance * maxDailyLossPct / 100 and the max_drawdown halt when
\* (peak - equity) / peak * 100 >= maxDrawdownPct (the later of the two tests names
\* the reason when both hold); when neither holds the halt state stays as it was.
C20_RecordPnLHalts ==
    [][ last'.op = "recordPnL" =>
          /\ riskManager'.dailyPnL = riskManager.dailyPnL + last'.pnl
          /\ riskManager'.peakBalance = Max(riskManager.peakBalance, last'.currentBalance)
          /\ LossBreached =>
                /\ riskManager'.halted
                /\ riskManager'.haltReason =
                      IF DrawdownBreached THEN "max_drawdown" ELSE "daily_loss"
          /\ DrawdownBreached =>
                /\ riskManager'.halted
                /\ riskManager'.haltReason = "max_drawdown"
          /\ (~LossBreached /\ ~DrawdownBreached) =>
                /\ riskManager'.halted = riskManager.halted
                /\ riskManager'.haltReason = riskManager.haltReason ]_vars

\* two losses of 50 reach the limit of 100 without a halt, a third one breaches it
C20_Witness ==
    /\ last.op = "recordPnL"
    /\ riskManager.dailyPnL = (0 - 150) * PriceScale
    /\ last.pnl = (0 - 50) * PriceScale
    /\ riskManager.halted /\ riskManager.haltReason = "daily_loss"
    /\ hist.ddHaltSet = FALSE

\* equity exactly 2 % below the peak halts for drawdown
C20_WitnessDrawdown ==
    /\ last.op = "recordPnL"
    /\ riskManager.peakBalance = 10000 * PriceScale
    /\ last.currentBalance = 9800 * PriceScale
    /\ riskManager.dailyPnL = 0
    /\ riskManager.halted /\ riskManager.haltReason = "max_drawdown"

\* a loss within both limits leaves the manager not halted
C20_WitnessNoHalt ==
    /\ last.op = "recordPnL"
    /\ last.pnl = (0 - 50) * PriceScale
    /\ last.currentBalance = 9900 * PriceScale
    /\ riskManager.dailyPnL = (0 - 100) * PriceScale
    /\ ~riskManager.halted

-----------------------------------------------------------------------------
(* Drawdown percentages *)

\* the last step of the run closed a position and passed its P&L to recordPnL
JustRecorded ==
    /\ mode = "backtest"
    /\ last.op \in {"exitChecks", "finalClose"}
    /\ TradesOf(last.obj) # {}

\* hundredths of a percent between 0 % and 100 %
PctRange == 0..(100 * 100)

\* C21: every drawdown percentage computed in a run lies in [0, 100]: the one
\* recordPnL evaluates from the peak and the equity it is given, and the maximum
\* drawdown getSummary obtains by replaying the trade history.
C21_DrawdownInRange ==
    mode = "backtest" =>
        /\ JustRecorded =>
              drawdownPct(riskManager.peakBalance, getTotalValue(portfolio, currentPrice))
                  \in PctRange
        /\ maxDrawdown(Trades, config.initialBalance, config.initialBalance, 0) \in PctRange
        /\ Returned => last.summary.maxDrawdown \in PctRange

\* a SELL position of 12 units opened at 200 is closed at 1100: the loss exceeds
\* the initial balance and the run returns a maximum drawdown above 100 %
C21_Witness ==
    /\ Returned
    /\ Len(Trades) = 1
    /\ Trades[1].side = "SELL" /\ Trades[1].quantity = 12
    /\ Trades[1].pnl < 0 - config.initialBalance
    /\ portfolio.balance < 0
    /\ last.summary.maxDrawdown > 100 * 100

-----------------------------------------------------------------------------
(* getSummary on the ledger, and the summaries returned by Backtester.run *)

\* a query: getSummary(currentPrice), as in the Portfolio test
LedgerGetSummary ==
    /\ mode = "ledger"
    /\ \E price \in LedgerPrices :
         last' = [op |-> "getSummary", price |-> price,
                  summary |-> getSummary(portfolio, price)]
    /\ UNCHANGED <<engine, process, exchange, config, mode, portfolio, riskManager, today, i, pc, currentPrice, snapshot,
                   k, nextObj, calls, hist>>

InitSummary == InitLedger \/ InitBacktest

NextSummary == NextLedger \/ LedgerGetSummary \/ NextBacktest

SpecSummary == InitSummary /\ [][NextSummary]_vars

\* a summary has just been computed from the trade history of the state
Summarised == last.op \in {"getSummary", "return"}

Winners == {n \in 1..Len(Trades) : Trades[n].pnl > 0}

\* C22: getSummary reports wins + losses = totalTrades; the win rate is
\* wins / totalTrades as a percentage to one decimal, 0 with no trades; the profit
\* factor is gross wins / gross losses to two decimals, 'Inf' when the gross losses
\* are 0 and there is a win, and 0 when there are no trades.
C22_Summary ==
    Summarised =>
        LET sm == last.summary
            grossLoss == GrossLosses(Trades)
        IN  /\ sm.totalTrades = Len(Trades)
            /\ sm.wins = Cardinality(Winners)
            /\ sm.wins + sm.losses = sm.totalTrades
            /\ IF Len(Trades) = 0 THEN sm.winRate = 0
               ELSE 2 * Abs(sm.winRate * Len(Trades) - 1000 * sm.wins) <= Len(Trades)
            /\ grossLoss > 0 =>
                  sm.profitFactor = [inf |-> FALSE,
                                     value |-> Fixed(GrossWins(Trades), grossLoss, 2)]
            /\ (grossLoss = 0 /\ sm.wins >= 1) => sm.profitFactor.inf
            /\ Len(Trades) = 0 => sm.profitFactor = [inf |-> FALSE, value |-> 0]

\* the Portfolio test: one trade, a win; the profit factor is 'Inf'
C22_Witness ==
    /\ mode = "ledger" /\ last.op = "getSummary"
    /\ last.summary.totalTrades = 1 /\ last.summary.wins = 1
    /\ last.summary.winRate = 1000
    /\ last.summary.profitFactor.inf

\* a run returns one win and one loss: win rate 50.0 %, a finite profit factor
C22_WitnessMixed ==
    /\ Returned
    /\ last.summary.totalTrades = 2 /\ last.summary.wins = 1 /\ last.summary.losses = 1
    /\ last.summary.winRate = 500
    /\ ~last.summary.profitFactor.inf /\ last.summary.profitFactor.value > 0

\* a summary without trades
C22_WitnessNoTrades ==
    /\ Summarised
    /\ last.summary.totalTrades = 0
    /\ last.summary.winRate = 0
    /\ last.summary.profitFactor = [inf |-> FALSE, value |-> 0]

-----------------------------------------------------------------------------
(* The loop of start() and the shutdown *)

TickStarts == engine'.inFlight > engine.inFlight

\* C23: at most one tick is in flight at any time; the loop starts a tick only from
\* its test of this.running, reached from start() or after the poll sleep that
\* follows the return of the previous tick; and once stop() has been called no
\* tick is started.
C23_OneTickAtATime ==
    [][ /\ engine'.inFlight <= 1
        /\ TickStarts =>
              /\ engine.inFlight = 0
              /\ engine.loop = "test" /\ engine.running
              /\ process.signals = 0
        /\ (engine'.loop = "test" /\ engine.loop # "test") =>
              /\ engine.loop \in {"new", "sleep"}
              /\ engine.inFlight = 0
        /\ process.signals > 0 => ~engine'.running ]_vars

\* the third tick is in flight after two ticks that have returned
C23_Witness ==
    /\ mode = "exchange"
    /\ i = 3 /\ engine.inFlight = 1 /\ engine.loop = "await"
    /\ pc = "openOrder"

\* stop() was called during the first tick: the tick has returned, the loop has
\* ended after its sleep and no second tick was started
C23_WitnessStopped ==
    /\ mode = "exchange"
    /\ process.signals = 1 /\ ~process.exited
    /\ engine.loop = "returned" /\ engine.inFlight = 0
    /\ i = 1 /\ Len(Open) = 1

\* an exchange order has been sent and the ledger does not show it yet
OrderOutstanding == engine.pending.kind # "none"

\* C24: when the process exits after a stop request, the tick that was in flight
\* has run to completion: no tick is in flight and no market order is outstanding
\* whose ledger open or close has not been applied.
C24_TickCompletesBeforeExit ==
    process.exited => (engine.inFlight = 0 /\ ~OrderOutstanding)

\* the process has exited with the opening order of the tick unanswered
C24_Witness ==
    /\ mode = "exchange"
    /\ process.exited
    /\ engine.inFlight = 1 /\ pc = "openOrder"
    /\ engine.pending.kind = "open"
    /\ Len(Open) = 0

-----------------------------------------------------------------------------
(* Fill prices in live mode *)

\* the trade recorded by the closing order that has just been answered
ClosedTrade == Trades[Len(Trades)]

\* C25: in live mode the ledger records the fill price reported in the order
\* response, at the opening and at the closing of a position, and the locally
\* observed price only when the response reports none.
C25_LedgerRecordsFill ==
    /\ (last.op = "openOrder" /\ last.opened) =>
          Newest.entryPrice = IF last.fill # NoArg THEN last.fill ELSE last.price
    /\ (last.op = "closeOrder" /\ last.ok) =>
          ClosedTrade.exitPrice = IF last.fill # NoArg THEN last.fill ELSE currentPrice

\* the opening half of C25, and the close as it is: at the locally observed price
C25_FillAtOpenOnly ==
    /\ (last.op = "openOrder" /\ last.opened) =>
          Newest.entryPrice = IF last.fill # NoArg THEN last.fill ELSE last.price
    /\ last.op = "closeOrder" => ClosedTrade.exitPrice = currentPrice

\* a position opened at the reported fill price, above the price seen
C25_WitnessOpen ==
    /\ last.op = "openOrder" /\ last.opened
    /\ last.fill # NoArg /\ last.fill > last.price
    /\ Newest.entryPrice = last.fill

\* a closing order answered with a fill price that the trade does not carry
C25_Witness ==
    /\ last.op = "closeOrder" /\ last.ok
    /\ last.fill # NoArg
    /\ ClosedTrade.obj = last.obj
    /\ ClosedTrade.exitPrice = currentPrice /\ ClosedTrade.exitPrice # last.fill

-----------------------------------------------------------------------------
(* Determinism of Backtester.run *)

\* the run is about to execute the entry stage of bar i
AtEntryStage == mode = "backtest" /\ pc = "exits" /\ k > Len(snapshot)

\* the ledger after the entry stage of this bar, had _today() returned the date now
EntryOutcome(now, evaluation, atr, id) ==
    LET r == entryStage(portfolio, riskManager, currentPrice, i, now, evaluation, atr,
                        id, nextObj)
    IN  [opened |-> r.opened, portfolio |-> r.portfolio]

\* C26: a run is a function of the bars, the signals and the configuration: from
\* the same state and with the same signal and bar window, the entry stage leaves
\* the same ledger whatever date the wall clock shows, so that two runs on the same
\* inputs cannot part and return different trades.
C26_RunIgnoresWallClock ==
    AtEntryStage =>
        \A evaluation \in Evaluations, atr \in Atrs, id \in Ids, now \in {today, today + 1} :
            EntryOutcome(now, evaluation, atr, id) = EntryOutcome(today, evaluation, atr, id)

\* a run halted for the daily loss, with a BUY signal at this bar: it opens nothing
\* if the wall clock still shows the date of construction, and opens a position if
\* midnight has passed
C26_Witness ==
    /\ AtEntryStage
    /\ riskManager.halted /\ riskManager.haltReason = "daily_loss"
    /\ riskManager.dailyResetDate = today
    /\ LET buy == [signal |-> "BUY", confidence |-> 80] IN
         /\ ~EntryOutcome(today, buy, 0, 1).opened
         /\ EntryOutcome(today + 1, buy, 0, 1).opened

-----------------------------------------------------------------------------
(* Identity of the open positions *)

\* C27: the open positions have pairwise distinct ids, and closePosition(id)
\* removes the very position the caller meant: when the exit stage has examined a
\* position that is still open, the trade recorded last at this bar does not bear
\* the id of that position.
C27_DistinctIds ==
    /\ \A a, b \in 1..Len(Open) : a # b => Open[a].id # Open[b].id
    /\ (mode = "backtest" /\ last.op = "exitChecks" /\ Len(Trades) > 0
            /\ ClosedTrade.exitTime = i /\ isOpen(Open, last.obj))
         => ClosedTrade.id # RecordOf(portfolio, last.obj).id

\* the exit stage examined one position and closed another one that bears the
\* same id; the position it examined is still open
C27_Witness ==
    /\ mode = "backtest" /\ last.op = "exitChecks"
    /\ isOpen(Open, last.obj)
    /\ Len(Trades) > 0
    /\ ClosedTrade.exitTime = i
    /\ ClosedTrade.obj # last.obj
    /\ ClosedTrade.id = RecordOf(portfolio, last.obj).id

-----------------------------------------------------------------------------
(* Realized P&L fed to the risk manager *)

\* one step of a run, seen from the daily P&L: a step that records a trade adds
\* the pnl of that trade, a step that changes the reset date zeroes the daily P&L
\* and records no trade, and every other step leaves both alone
DailyPnLFollowsTrades ==
    mode = "backtest" =>
        IF Len(Trades') = Len(Trades) + 1
        THEN /\ riskManager'.dailyPnL = riskManager.dailyPnL + Trades'[Len(Trades')].pnl
             /\ riskManager'.dailyResetDate = riskManager.dailyResetDate
             /\ SubSeq(Trades', 1, Len(Trades)) = Trades
        ELSE /\ Trades' = Trades
             /\ riskManager'.dailyPnL =
                    IF riskManager'.dailyResetDate # riskManager.dailyResetDate
                    THEN 0 ELSE riskManager.dailyPnL

-----------------------------------------------------------------------------
(* Stops and targets after the exit stage *)

\* the price lies strictly between the stop and the target of the position
\* (checkExitConditions would not close it)
WithinLevels(p, price) ==
    IF p.side = "BUY"
    THEN p.stopLoss < price /\ price < p.takeProfit
    ELSE p.takeProfit < price /\ price < p.stopLoss

\* every id the run has generated so far was generated once
IdsNeverRepeated ==
    LET records == Open \o Trades IN
    \A a, b \in 1..Len(records) : a # b => records[a].id # records[b].id

\* C29: at the end of the exit stage of every bar no open position has its stop
\* or its target breached: a LONG position has stopLoss < price < takeProfit and a
\* SHORT position has takeProfit < price < stopLoss.
C29_NoBreachAfterExits ==
    AtEntryStage => \A n \in 1..Len(Open) : WithinLevels(Open[n], currentPrice)

\* the same property over the runs in which no id was generated twice
C29_NoBreachWithDistinctIds ==
    (AtEntryStage /\ IdsNeverRepeated) =>
        \A n \in 1..Len(Open) : WithinLevels(Open[n], currentPrice)

\* a close for a stop-loss or a take-profit names the stop-loss whenever the stop
\* of the closed position is breached at the close
C29_StopReportedFirst ==
    (mode = "backtest" /\ last.op = "exitChecks" /\ Len(Trades) > 0
        /\ ClosedTrade.exitTime = i /\ ClosedTrade.obj = last.obj
        /\ ClosedTrade.exitReason = "Take-profit hit")
    => IF ClosedTrade.side = "BUY" THEN currentPrice > ClosedTrade.stopLoss
                                   ELSE currentPrice < ClosedTrade.stopLoss

\* the exit stage of a bar is over, and a position whose stop is breached is still
\* open: the close meant for it removed a position with the same id
C29_Witness ==
    /\ AtEntryStage
    /\ Len(Trades) > 0 /\ ClosedTrade.exitTime = i
    /\ ClosedTrade.exitReason = "Stop-loss hit"
    /\ \E n \in 1..Len(Open) :
          /\ Open[n].id = ClosedTrade.id
          /\ Open[n].entryBar < i
          /\ ~WithinLevels(Open[n], currentPrice)

\* the exit stage of a bar is over with a position left open within its levels
\* and another one closed at this bar, all ids distinct
C29_WitnessDistinctIds ==
    /\ AtEntryStage /\ IdsNeverRepeated
    /\ Len(Open) > 0 /\ Len(Trades) > 0
    /\ ClosedTrade.exitTime = i
    /\ ClosedTrade.exitReason \in {"Stop-loss hit", "Take-profit hit"}

-----------------------------------------------------------------------------
(* What recordPnL and checkDayRollover change *)

\* one call of the risk manager's interface, seen from the peak
PeakFrame ==
    mode = "risk" =>
        /\ last'.op = "recordPnL" =>
              /\ riskManager'.peakBalance >= riskManager.peakBalance
              /\ riskManager'.peakBalance >= last'.currentBalance
              /\ riskManager'.dailyResetDate = riskManager.dailyResetDate
        /\ riskManager'.peakBalance < riskManager.peakBalance =>
              /\ last'.op = "checkDayRollover"
              /\ today' # riskManager.dailyResetDate
              /\ last'.currentBalance > 0
              /\ riskManager'.peakBalance = last'.currentBalance
        /\ (last'.op = "checkDayRollover" /\ today' = riskManager.dailyResetDate) =>
              riskManager' = riskManager

C30_WitnessRecord ==
    /\ mode = "risk" /\ last.op = "recordPnL"
    /\ last.currentBalance < riskManager.peakBalance
    /\ riskManager.peakBalance > config.initialBalance

\* checkDayRollover was called on the day of a daily-loss halt and has kept it
C30_WitnessSameDay ==
    /\ mode = "risk" /\ last.op = "checkDayRollover"
    /\ riskManager.dailyResetDate = today
    /\ riskManager.halted /\ riskManager.haltReason = "daily_loss"
    /\ riskManager.dailyPnL < 0

-----------------------------------------------------------------------------
(* Money of a returned run *)

\* C31: when the run returns, the cash balance minus the initial balance is the
\* sum of pnl over the returned trade history (the summary's totalPnl), for every
\* bar sequence, those with partial profit-takes included.
C31_BalanceMatchesTrades ==
    Returned => portfolio.balance - config.initialBalance = TotalPnl(Trades)

\* the same property over the runs in which no partial profit-take occurred
C31_BalanceMatchesWithoutPartial ==
    (Returned /\ \A n \in 1..Len(Trades) : ~Trades[n].partialTaken)
        => portfolio.balance - config.initialBalance = TotalPnl(Trades)

\* a returned run with one trade, whose position had half of its quantity taken
\* at a profit: the balance has gained more than the history's pnl
C31_Witness ==
    /\ Returned
    /\ Len(Trades) = 1 /\ Trades[1].partialTaken
    /\ last.summary.totalTrades = 1
    /\ portfolio.balance - config.initialBalance > TotalPnl(Trades)

\* a returned run without partial take and with trades
C31_WitnessWithoutPartial ==
    /\ Returned
    /\ Len(Trades) >= 2
    /\ \A n \in 1..Len(Trades) : ~Trades[n].partialTaken

-----------------------------------------------------------------------------
(* Sign of the cash balance *)

\* C32: the cash balance is never negative in any reachable state of a run, for
\* LONG and SHORT positions and every price path.
C32_BalanceNotNegative == portfolio.balance >= 0

\* a SHORT position was closed at more than twice its entry price: the amount
\* credited, value + pnl, is negative and has taken the balance below zero
C32_Witness ==
    /\ mode = "backtest"
    /\ Len(Trades) > 0
    /\ ClosedTrade.side = "SELL"
    /\ ClosedTrade.exitTime = i
    /\ ClosedTrade.value + ClosedTrade.pnl < 0
    /\ portfolio.balance < 0

-----------------------------------------------------------------------------
(* The drawdown halt and the equity *)

\* the step sets a max_drawdown halt that was not set before it
DrawdownHaltSet ==
    /\ riskManager'.halted /\ riskManager'.haltReason = "max_drawdown"
    /\ ~(riskManager.halted /\ riskManager.haltReason = "max_drawdown")

\* the equity after the step: cash plus the open positions marked at the price
EquityAfter == getTotalValue(portfolio', currentPrice')

\* C33: a max_drawdown halt is set only when the total equity (cash plus open
\* positions marked at the current price) has fallen by at least maxDrawdownPct
\* from its peak, in the backtester and in the periodic trading engine alike.
C33_DrawdownHaltOnEquity ==
    [][ (mode \in {"backtest", "periodic"} /\ DrawdownHaltSet) =>
            drawdownReached(riskManager'.peakBalance, EquityAfter) ]_vars

\* the same property for the backtester alone
C33_DrawdownHaltOnEquityBacktest ==
    [][ (mode = "backtest" /\ DrawdownHaltSet) =>
            drawdownReached(riskManager'.peakBalance, EquityAfter) ]_vars

\* the periodic engine is halted for drawdown after a close, with a position still
\* open and an equity within half a percent of the initial balance
C33_Witness ==
    /\ mode = "periodic"
    /\ riskManager.halted /\ riskManager.haltReason = "max_drawdown"
    /\ Len(Open) >= 1 /\ Len(Trades) >= 1
    /\ riskManager.peakBalance = config.initialBalance
    /\ getTotalValue(portfolio, currentPrice)
            > config.initialBalance - config.initialBalance \div 200

\* the backtester is halted for drawdown with a position still open
C33_WitnessBacktest ==
    /\ mode = "backtest"
    /\ riskManager.halted /\ riskManager.haltReason = "max_drawdown"
    /\ Len(Open) >= 1 /\ Len(Trades) >= 1

-----------------------------------------------------------------------------
(* Entries during a drawdown *)

\* the equity at the entry stage of the bar, marked at the bar's price, is
\* maxDrawdownPct or more below the equity the run started with; the highest
\* equity the run has reached is at least that
InDrawdown ==
    drawdownReached(config.initialBalance, getTotalValue(portfolio, currentPrice))

\* C34: no position is opened at a bar at which the total equity marked at that
\* bar's price is already maxDrawdownPct or more below the highest equity the run
\* has reached.
C34_NoEntryInDrawdown ==
    [][ (AtEntryStage /\ InDrawdown) => Len(portfolio'.positions) = Len(Open) ]_vars

\* a position was opened at a bar whose equity, the new position included, is more
\* than maxDrawdownPct below the initial balance
C34_Witness ==
    /\ JustOpened
    /\ Newest.entryBar = i - 1
    /\ InDrawdown

\* the same property over the runs in which the day never changes
C34_NoEntryInDrawdownSameDay ==
    [][ (AtEntryStage /\ InDrawdown /\ today' = 0) =>
            Len(portfolio'.positions) = Len(Open) ]_vars

-----------------------------------------------------------------------------
(* Ledger and exchange under order failures *)

\* C35: in live mode a market order that fails leaves the ledger unchanged: a
\* position is added to the ledger only if its opening order succeeded and is
\* removed from it only if its closing order succeeded.
C35_FailedOrderLeavesLedger ==
    [][ (mode = "exchange" /\ last'.op \in {"openOrder", "closeOrder"} /\ ~last'.ok)
            => portfolio' = portfolio ]_vars

\* the opening side of the same property
C35_FailedOpenLeavesLedger ==
    [][ (mode = "exchange" /\ last'.op = "openOrder" /\ ~last'.ok)
            => portfolio' = portfolio ]_vars

\* the closing order of the only position has failed; the ledger has recorded its
\* trade and holds no position, while the exchange still holds the quantity
C35_Witness ==
    /\ mode = "exchange"
    /\ last.op = "closeOrder" /\ ~last.ok
    /\ Len(Open) = 0 /\ Len(Trades) = 1
    /\ ClosedTrade.obj = last.obj
    /\ exchange.orders = 1
    /\ exchange.position = IF ClosedTrade.side = "BUY" THEN ClosedTrade.quantity
                                                     ELSE 0 - ClosedTrade.quantity

\* an opening order has failed and nothing was opened
C35_WitnessOpen ==
    /\ mode = "exchange"
    /\ last.op = "openOrder" /\ ~last.ok
    /\ Len(Open) = 0 /\ Len(Trades) = 0
    /\ exchange.orders = 0

-----------------------------------------------------------------------------
(* Trailing stop against the hard stop *)

\* the trailing stop of the position is at least as tight as its hard stop
TrailingTightEnough(p) ==
    IF p.side = "BUY" THEN p.trailingStop >= p.stopLoss
                      ELSE p.trailingStop <= p.stopLoss

\* C36: for every open position in every reachable state the trailing stop is at
\* least as tight as the hard stop: trailingStop >= stopLoss for LONG and
\* trailingStop <= stopLoss for SHORT, also after the partial take has moved the
\* stop to the entry price.
C36_TrailingNotLooser ==
    \A n \in 1..Len(Open) : TrailingTightEnough(Open[n])

\* a position after its partial take: the hard stop is at the entry price, above
\* (LONG) or below (SHORT) the stop it was opened with, and the trailing stop is
\* tighter still
C36_Witness ==
    /\ mode = "backtest"
    /\ \E n \in 1..Len(Open) :
          /\ Open[n].partialTaken
          /\ Open[n].stopLoss = Open[n].entryPrice
          /\ Open[n].trailingStop # Open[n].stopLoss
          /\ TrailingTightEnough(Open[n])

\* a SHORT position whose trailing stop has come down below its hard stop
C36_WitnessShort ==
    \E n \in 1..Len(Open) :
        /\ Open[n].side = "SELL"
        /\ Open[n].trailingStop < Open[n].stopLoss

-----------------------------------------------------------------------------
(* JavaScript numbers.  The stop, the target and the reward/risk ratio are  *)
(* computed in IEEE 754 doubles: every operation returns the double nearest *)
(* to the exact result, ties to the even mantissa.  A double is a record    *)
(* [m, e] of value m * 2^e, with m = 0 or 2^52 <= m < 2^53; m is kept as a  *)
(* sequence of limbs, least significant first, so that no intermediate      *)
(* value leaves the range of the model checker's integers.                  *)

LimbBits == 15
LimbBase == 2^LimbBits
DigitBits == 3
DblPrecision == 53

RECURSIVE Limbs(_)
Limbs(n) == IF n = 0 THEN <<>> ELSE <<n % LimbBase>> \o Limbs(n \div LimbBase)

RECURSIVE TrimL(_)
TrimL(a) ==
    IF a = <<>> THEN <<>>
    ELSE IF a[Len(a)] = 0 THEN TrimL(SubSeq(a, 1, Len(a) - 1)) ELSE a

Limb(a, n) == IF n <= Len(a) THEN a[n] ELSE 0

RECURSIVE AddFrom(_, _, _, _)
AddFrom(a, b, n, c) ==
    IF n > Max(Len(a), Len(b)) THEN (IF c = 0 THEN <<>> ELSE <<c>>)
    ELSE LET sum == Limb(a, n) + Limb(b, n) + c
         IN  <<sum % LimbBase>> \o AddFrom(a, b, n + 1, sum \div LimbBase)

AddL(a, b) == IF a = <<>> THEN b ELSE IF b = <<>> THEN a ELSE AddFrom(a, b, 1, 0)

\* a - b for a >= b
RECURSIVE SubFrom(_, _, _, _)
SubFrom(a, b, n, c) ==
    IF n > Len(a) THEN <<>>
    ELSE LET d == Limb(a, n) - Limb(b, n) - c
         IN  IF d < 0 THEN <<d + LimbBase>> \o SubFrom(a, b, n + 1, 1)
                      ELSE <<d>> \o SubFrom(a, b, n + 1, 0)

SubL(a, b) == IF a = <<>> \/ b = <<>> THEN a ELSE TrimL(SubFrom(a, b, 1, 0))

RECURSIVE CmpFrom(_, _, _)
CmpFrom(a, b, n) ==
    IF n = 0 THEN 0
    ELSE IF a[n] # b[n] THEN (IF a[n] > b[n] THEN 1 ELSE 0 - 1)
    ELSE CmpFrom(a, b, n - 1)

\* -1, 0, 1 as a is below, equal to, above b
CmpL(a, b) ==
    IF Len(a) # Len(b) THEN (IF Len(a) > Len(b) THEN 1 ELSE 0 - 1)
    ELSE CmpFrom(a, b, Len(a))

RECURSIVE MulSmallFrom(_, _, _, _)
MulSmallFrom(a, s, n, c) ==
    IF n > Len(a) THEN (IF c = 0 THEN <<>> ELSE <<c>>)
    ELSE LET prod == a[n] * s + c
         IN  <<prod % LimbBase>> \o MulSmallFrom(a, s, n + 1, prod \div LimbBase)

\* a * s for s < LimbBase
MulSmall(a, s) == IF a = <<>> \/ s = 0 THEN <<>> ELSE MulSmallFrom(a, s, 1, 0)

RECURSIVE MulL(_, _)
MulL(a, b) ==
    IF a = <<>> \/ b = <<>> THEN <<>>
    ELSE LET r == MulL(a, Tail(b))
         IN  TrimL(AddL(MulSmall(a, Head(b)), IF r = <<>> THEN <<>> ELSE <<0>> \o r))

RECURSIVE Bits(_)
Bits(n) == IF n = 0 THEN 0 ELSE 1 + Bits(n \div 2)

BitLen(a) == IF a = <<>> THEN 0 ELSE LimbBits * (Len(a) - 1) + Bits(a[Len(a)])

\* bit n of a, the least significant bit being bit 1
BitAt(a, n) == (Limb(a, (n - 1) \div LimbBits + 1) \div 2^((n - 1) % LimbBits)) % 2

\* a * 2^sh
ShlL(a, sh) ==
    IF a = <<>> THEN <<>>
    ELSE [j \in 1..(sh \div LimbBits) |-> 0] \o MulSmall(a, 2^(sh % LimbBits))

RECURSIVE DivSmallFrom(_, _, _, _)
DivSmallFrom(a, s, n, rem) ==
    IF n = 0 THEN <<>>
    ELSE LET cur == rem * LimbBase + a[n]
         IN  Append(DivSmallFrom(a, s, n - 1, cur % s), cur \div s)

\* floor(a / 2^sh)
ShrL(a, sh) ==
    IF a = <<>> \/ sh = 0 THEN a
    ELSE LET high == SubSeq(a, sh \div LimbBits + 1, Len(a))
         IN  TrimL(DivSmallFrom(high, 2^(sh % LimbBits), Len(high), 0))

\* the largest digit d below LimbBase with d * b <= cur, DigitBits bits at a time
RECURSIVE DigitFrom(_, _, _, _)
DigitFrom(cur, b, bit, d) ==
    IF bit = 0 THEN d
    ELSE LET step == 2^(bit - DigitBits)
             t == Cardinality({j \in 1..(2^DigitBits - 1) :
                                  CmpL(MulSmall(b, d + j * step), cur) <= 0})
         IN  DigitFrom(cur, b, bit - DigitBits, d + t * step)

\* long division in limbs, from limb n of a downwards, q the digits found so far
RECURSIVE DivFrom(_, _, _, _, _)
DivFrom(a, b, n, q, rem) ==
    IF n = 0 THEN [q |-> q, rem |-> rem]
    ELSE LET cur == TrimL(<<a[n]>> \o rem)
             d == DigitFrom(cur, b, LimbBits, 0)
         IN  IF d = 0 THEN DivFrom(a, b, n - 1, <<0>> \o q, cur)
             ELSE DivFrom(a, b, n - 1, <<d>> \o q, SubL(cur, MulSmall(b, d)))

\* floor(a / b) and the remainder, for b # 0: the limbs of a above the first
\* Len(a) - Len(b) + 1 are below b and start as the remainder
DivL(a, b) ==
    IF CmpL(a, b) < 0 THEN [q |-> <<>>, rem |-> a]
    ELSE LET low == Len(a) - Len(b) + 1
             r == DivFrom(a, b, low, <<>>, SubSeq(a, low + 1, Len(a)))
         IN  [q |-> TrimL(r.q), rem |-> r.rem]

\* the double nearest to m * 2^e, ties to even
RoundToDouble(m, e) ==
    LET len == BitLen(m)
        sh == len - DblPrecision
        kept == ShrL(m, sh)
        sticky == sh > 1 /\ CmpL(ShlL(ShrL(m, sh - 1), sh - 1), m) # 0
        up == BitAt(m, sh) = 1 /\ (sticky \/ BitAt(kept, 1) = 1)
        bumped == AddL(kept, <<1>>)
    IN  IF m = <<>> THEN [m |-> <<>>, e |-> 0]
        ELSE IF len <= DblPrecision
        THEN [m |-> ShlL(m, DblPrecision - len), e |-> e - (DblPrecision - len)]
        ELSE IF ~up THEN [m |-> kept, e |-> e + sh]
        ELSE IF BitLen(bumped) > DblPrecision
        THEN [m |-> ShrL(bumped, 1), e |-> e + sh + 1]
        ELSE [m |-> bumped, e |-> e + sh]

\* the double of a natural number below 2^31
Dbl(n) == RoundToDouble(Limbs(n), 0)

\* x * y
DblMul(x, y) ==
    IF x.m = <<>> \/ y.m = <<>> THEN [m |-> <<>>, e |-> 0]
    ELSE RoundToDouble(MulL(x.m, y.m), x.e + y.e)

\* x / y for y # 0: the quotient to 57 bits, a sticky bit below them
DblDiv(x, y) ==
    IF x.m = <<>> THEN [m |-> <<>>, e |-> 0]
    ELSE LET d == DivL(ShlL(x.m, 56), y.m)
         IN  IF d.rem = <<>> THEN RoundToDouble(AddL(d.q, d.q), x.e - y.e - 57)
             ELSE RoundToDouble(AddL(AddL(d.q, d.q), <<1>>), x.e - y.e - 57)

\* x >= y
DblGe(x, y) ==
    IF x.m = <<>> \/ y.m = <<>> THEN x.m # <<>> \/ y.m = <<>>
    ELSE IF x.e # y.e THEN x.e > y.e
    ELSE CmpL(x.m, y.m) >= 0

\* x + y
DblAdd(x, y) ==
    IF x.m = <<>> THEN y
    ELSE IF y.m = <<>> THEN x
    ELSE LET hi == IF x.e >= y.e THEN x ELSE y
             lo == IF x.e >= y.e THEN y ELSE x
         IN  RoundToDouble(AddL(ShlL(hi.m, hi.e - lo.e), lo.m), lo.e)

\* Math.abs(x - y)
DblDist(x, y) ==
    LET big == IF DblGe(x, y) THEN x ELSE y
        small == IF DblGe(x, y) THEN y ELSE x
    IN  IF small.m = <<>> THEN big
        ELSE RoundToDouble(SubL(ShlL(big.m, big.e - small.e), small.m), small.e)

\* the number a decimal literal with one digit after the point denotes
DblOfTenths(n) == DblDiv(Dbl(n), Dbl(10))

\* the number of a price given in ticks
DblOfPrice(price) == DblDiv(Dbl(price), Dbl(PriceScale))

-----------------------------------------------------------------------------
(* The risk/reward gate as the program computes it, in doubles *)

\* entryPrice * (1 - pct) or entryPrice * (1 + pct), pct = stopLossPct / 100 < 1
getStopLossDbl(entryPrice, side) ==
    LET pct == DblDiv(DblOfTenths(config.stopLossPct), Dbl(100))
    IN  IF side = "BUY" THEN DblMul(entryPrice, DblDist(Dbl(1), pct))
                        ELSE DblMul(entryPrice, DblAdd(Dbl(1), pct))

getTakeProfitDbl(entryPrice, side) ==
    LET pct == DblDiv(DblOfTenths(config.takeProfitPct), Dbl(100))
    IN  IF side = "BUY" THEN DblMul(entryPrice, DblAdd(Dbl(1), pct))
                        ELSE DblMul(entryPrice, DblDist(Dbl(1), pct))

meetsRiskRewardDbl(entryPrice, stopLoss, takeProfit) ==
    LET risk == DblDist(entryPrice, stopLoss)
        reward == DblDist(takeProfit, entryPrice)
    IN  IF risk.m = <<>> THEN FALSE
        ELSE DblGe(DblDiv(reward, risk), DblOfTenths(config.riskRewardRatio))

\* the three numbers the gate reads, as config/default.js sets them:
\* stop-loss 5 %, take-profit 2 %, required ratio 0.4
DefaultConfig ==
    [ ShippedConfig EXCEPT !.stopLossPct = 50, !.takeProfitPct = 20, !.riskRewardRatio = 4 ]

\* a stop-loss of 0 %: the risk distance is 0
NoStopConfig == [ ShippedConfig EXCEPT !.stopLossPct = 0 ]

\* ratios on the required ratio, above it, below it, and without risk distance
NumberConfigs == {DefaultConfig, RunConfig(100), GateConfig, NoStopConfig}

InitNumbers == mode = "numbers" /\ pc = "api" /\ InitCommon(NumberConfigs)

\* the gate of one entry stage of a run: stop and target from the close of the bar,
\* then meetsRiskReward; before is the answer the previous entry stage got
NumbersGate ==
    /\ mode = "numbers" /\ calls < MaxCalls
    /\ \E price \in Prices, side \in Sides :
         LET entryPrice == DblOfPrice(price)
             met == meetsRiskRewardDbl(entryPrice, getStopLossDbl(entryPrice, side),
                                       getTakeProfitDbl(entryPrice, side))
         IN  last' = [op |-> "gate", price |-> price, side |-> side, returned |-> met,
                      before |-> IF last.op = "gate" THEN last.returned ELSE met]
    /\ calls' = calls + 1
    /\ UNCHANGED <<engine, process, exchange, config, mode, portfolio, riskManager, today, i,
                   pc, currentPrice, snapshot, k, nextObj, hist>>

NextNumbers == NumbersGate

SpecNumbers == InitNumbers /\ [][NextNumbers]_vars

\* takeProfitPct / stopLossPct >= riskRewardRatio, with a stop-loss above 0
GateExpected ==
    /\ config.stopLossPct # 0
    /\ 10 * config.takeProfitPct >= config.riskRewardRatio * config.stopLossPct

\* C37: the risk/reward gate gives the same answer for every entry of a run: it
\* rejects every entry if takeProfitPct / stopLossPct < riskRewardRatio or
\* stopLossPct is 0, and otherwise it never rejects an entry.
C37_GateAnswerFixedByConfig ==
    (mode = "numbers" /\ last.op = "gate") =>
        /\ last.returned = GateExpected
        /\ last.returned = last.before

\* the same property for the configurations whose ratio is not the required one
C37_GateAnswerOffTheBoundary ==
    (mode = "numbers" /\ last.op = "gate"
        /\ 10 * config.takeProfitPct # config.riskRewardRatio * config.stopLossPct) =>
        /\ last.returned = GateExpected
        /\ last.returned = last.before

\* with the default configuration the gate rejects the entry at a close of 188
\* after it has accepted the previous entry of the run
C37_Witness ==
    /\ mode = "numbers" /\ config = DefaultConfig
    /\ last.op = "gate"
    /\ last.price = 188 * PriceScale
    /\ ~last.returned
    /\ last.before

\* the gate rejects with a ratio below the required one and with a stop-loss of 0
C37_WitnessRejected ==
    /\ mode = "numbers" /\ config \in {GateConfig, NoStopConfig}
    /\ last.op = "gate" /\ ~last.returned /\ calls = MaxCalls

====
